---- MODULE Spec2Model ----
(***************************************************************************)
(* CSV-to-Graphical-Visualization: the CSV parser of utils/csvParser       *)
(* (src/unnamed/part_002).                                                  *)
(*                                                                         *)
(* A JavaScript string is a sequence of one-character strings, so that     *)
(* trim, split, the regular expressions and parseFloat are computed        *)
(* character by character, as the engine computes them.                    *)
(***************************************************************************)
EXTENDS Integers, Sequences, FiniteSets, TLC

VARIABLES
    csvText,     \* the argument of parseCSV
    parsed,      \* what parseCSV returned (or the error it threw)
    rawHeaders,  \* the argument of cleanHeaders
    cleaned,     \* what cleanHeaders returned
    lineText,    \* the argument of parseCSVLine
    lineCells,   \* what parseCSVLine returned
    categoryHeaders, \* the header list handed to the categorizers
    chartGroups,     \* the metricGroups of the chart component
    parserGroups,    \* what groupMetricsByCategory returned
    chartData,       \* the data prop of the chart component
    chartHeaders,    \* its headers prop
    xAxis,           \* its state: the X-axis column
    yAxis,           \* the Y-axis column of the single view
    selectedYAxes,   \* the Y-axis columns of the multi view
    viewMode,        \* 'single' or 'multi'
    timeGrouping,    \* 'none', 'days', 'weeks' or 'months'
    aggregationMethod, \* 'sum', 'average' or 'count'
    timezoneOffset,  \* the browser's getTimezoneOffset(), in minutes
    processedData,   \* the memoized processedData
    dashHeaders,     \* the Dashboard's state headers
    csvData,         \* its state csvData
    dashIsMultiMetric, \* its state isMultiMetric
    currentFileName, \* its state currentFileName
    uploadHistory,   \* its state uploadHistory
    activeTab,       \* its state activeTab
    loggedOut,       \* onLogout has been called
    toasts,          \* the notifications the last handler showed
    handledFile,     \* the name of the file the last handler was given
    shownFile,       \* the name of the file whose parse set headers and csvData
    kvUploads,       \* the server's KV store: the metadata under each upload id
    kvHistory,       \* the KV store's value under the user's history key
    storage,         \* the paths of the files in the storage bucket
    requests,        \* the POST /upload-csv requests received, each with its position
    clock,           \* the server's clock, in milliseconds
    pc           \* "input" before the call, "done" after it

parserVars == <<csvText, parsed>>
headerVars == <<rawHeaders, cleaned>>
lineVars == <<lineText, lineCells>>
categoryVars == <<categoryHeaders, chartGroups, parserGroups>>
chartProps == <<chartData, chartHeaders, timezoneOffset>>
chartState ==
    <<xAxis, yAxis, selectedYAxes, viewMode, timeGrouping, aggregationMethod>>
chartVars == <<chartProps, chartState, processedData>>

dashboardState ==
    <<dashHeaders, csvData, dashIsMultiMetric, currentFileName, uploadHistory,
      activeTab, loggedOut>>
dashboardVars == <<dashboardState, toasts, handledFile, shownFile>>
serverVars == <<kvUploads, kvHistory, storage, requests, clock>>
appVars == <<dashboardVars, serverVars>>

vars == <<parserVars, headerVars, lineVars, categoryVars, chartVars, appVars, pc>>

(***************************************************************************)
(* Bounds of the checked input space.                                       *)
(***************************************************************************)
MaxLen == 5          \* longest enumerated csvText, in characters
MaxHeaders == 3      \* longest enumerated raw header list
MaxLineLen == 5      \* longest enumerated line for parseCSVLine
MaxWords == 2        \* most words in an enumerated header to categorize
MaxRows == 2         \* most rows in an enumerated chart data set
MaxHistory == 1      \* most entries in an upload history the server answers with
MaxUploads == 2      \* most POST /upload-csv requests of the user
MaxClock == 1        \* last reading of the server's clock, in milliseconds

(***************************************************************************)
(* JavaScript string primitives.                                            *)
(***************************************************************************)
WhiteSpace == {" ", "\n", "\t", "\r"}

Digit == {"0", "1", "2", "3", "4", "5", "6", "7", "8", "9"}

DigitChars == <<"0", "1", "2", "3", "4", "5", "6", "7", "8", "9">>

DigitValue(c) == (CHOOSE k \in 1..10 : DigitChars[k] = c) - 1

RECURSIVE trimStart(_)
trimStart(s) ==
    IF s # <<>> /\ Head(s) \in WhiteSpace THEN trimStart(Tail(s)) ELSE s

RECURSIVE trimEnd(_)
trimEnd(s) ==
    IF s # <<>> /\ s[Len(s)] \in WhiteSpace
    THEN trimEnd(SubSeq(s, 1, Len(s) - 1))
    ELSE s

\* String.prototype.trim
trim(s) == trimEnd(trimStart(s))

\* String.prototype.includes, for a one-character needle
includes(s, c) == \E i \in 1..Len(s) : s[i] = c

\* String.prototype.startsWith
startsWith(s, p) == Len(s) >= Len(p) /\ SubSeq(s, 1, Len(p)) = p

\* s.slice(n)
drop(s, n) == SubSeq(s, n + 1, Len(s))

\* String.prototype.split, for a one-character separator: "" splits to [""]
RECURSIVE split(_, _)
split(s, sep) ==
    IF ~includes(s, sep)
    THEN <<s>>
    ELSE LET i == CHOOSE k \in 1..Len(s) :
                      s[k] = sep /\ \A j \in 1..(k - 1) : s[j] # sep
         IN  <<SubSeq(s, 1, i - 1)>> \o split(drop(s, i), sep)

\* s.replace(/^"|"$/g, ''): one leading and one trailing double quote go
stripQuotes(s) ==
    LET a == IF s # <<>> /\ Head(s) = "\"" THEN Tail(s) ELSE s
    IN  IF a # <<>> /\ a[Len(a)] = "\"" THEN SubSeq(a, 1, Len(a) - 1) ELSE a

\* values.map(v => v.trim())
trimAll(seq) == [i \in 1..Len(seq) |-> trim(seq[i])]

\* `${count}`: the decimal digits of a non-negative integer
RECURSIVE numberToString(_)
numberToString(n) ==
    IF n < 10 THEN <<DigitChars[n + 1]>>
    ELSE numberToString(n \div 10) \o <<DigitChars[(n % 10) + 1]>>

(***************************************************************************)
(* Cell values: a string, or a number n / 10^d (d >= 0, no trailing zero   *)
(* in the fraction), or an infinity, or NaN.                                *)
(***************************************************************************)
Str(s) == [t |-> "string", s |-> s, n |-> 0, d |-> 0]

NaN == [t |-> "NaN", s |-> <<>>, n |-> 0, d |-> 0]

Infinity(neg) ==
    [t |-> IF neg THEN "-Infinity" ELSE "Infinity", s |-> <<>>, n |-> 0, d |-> 0]

RECURSIVE Number(_, _)
Number(n, d) ==
    IF d > 0 /\ n % 10 = 0 THEN Number(n \div 10, d - 1)
    ELSE IF d < 0 THEN Number(n * 10, d + 1)
    ELSE [t |-> "number", s |-> <<>>, n |-> n, d |-> d]

isNaN(v) == v.t = "NaN"

\* typeof v === 'number' (NaN never reaches a row: isNaN guards it)
IsNumber(v) == v.t \in {"number", "Infinity", "-Infinity"}

RECURSIVE digitRun(_)
digitRun(s) ==
    IF s # <<>> /\ Head(s) \in Digit
    THEN <<Head(s)>> \o digitRun(Tail(s))
    ELSE <<>>

RECURSIVE digitsValue(_, _)
digitsValue(ds, acc) ==
    IF ds = <<>> THEN acc
    ELSE digitsValue(Tail(ds), acc * 10 + DigitValue(Head(ds)))

InfinityLiteral == <<"I", "n", "f", "i", "n", "i", "t", "y">>

\* parseFloat: leading white space is skipped, then the longest prefix that
\* is a StrDecimalLiteral is converted; whatever follows it is ignored.
parseFloat(string) ==
    LET s0   == trimStart(string)
        sgn  == s0 # <<>> /\ Head(s0) \in {"+", "-"}
        neg  == s0 # <<>> /\ Head(s0) = "-"
        s1   == IF sgn THEN Tail(s0) ELSE s0
        ip   == digitRun(s1)
        r1   == drop(s1, Len(ip))
        dot  == r1 # <<>> /\ Head(r1) = "."
        fp   == IF dot THEN digitRun(Tail(r1)) ELSE <<>>
        r2   == IF dot THEN drop(r1, 1 + Len(fp)) ELSE r1
        e0   == r2 # <<>> /\ Head(r2) \in {"e", "E"}
        r3   == IF e0 THEN Tail(r2) ELSE <<>>
        eneg == r3 # <<>> /\ Head(r3) = "-"
        r4   == IF r3 # <<>> /\ Head(r3) \in {"+", "-"} THEN Tail(r3) ELSE r3
        ed   == digitRun(r4)
        exp  == IF ed = <<>> THEN 0
                ELSE IF eneg THEN 0 - digitsValue(ed, 0) ELSE digitsValue(ed, 0)
        mant == digitsValue(ip \o fp, 0)
    IN  IF startsWith(s1, InfinityLiteral) THEN Infinity(neg)
        ELSE IF ip = <<>> /\ fp = <<>> THEN NaN
        ELSE Number(IF neg THEN 0 - mant ELSE mant, Len(fp) - exp)

\* isNaN(numValue) ? value : numValue
coerce(value) ==
    IF isNaN(parseFloat(value)) THEN Str(value) ELSE parseFloat(value)

(***************************************************************************)
(* Rows: a Record<string, any> is a function from its keys to their values. *)
(***************************************************************************)
EmptyRow == <<>>

\* row[key] = value
Put(row, key, value) ==
    [k \in (DOMAIN row) \cup {key} |-> IF k = key THEN value ELSE row[k]]

\* Object.keys(row).length
KeyCount(row) == Cardinality(DOMAIN row)

\* Array.prototype.filter(row => Object.keys(row).length > 0)
RECURSIVE filterNonEmpty(_)
filterNonEmpty(rows) ==
    IF rows = <<>> THEN <<>>
    ELSE (IF KeyCount(Head(rows)) > 0 THEN <<Head(rows)>> ELSE <<>>)
         \o filterNonEmpty(Tail(rows))

(***************************************************************************)
(* ParsedCSVResult, and the Error a call may throw instead.                 *)
(***************************************************************************)
Result(headers, data, isMultiMetric, originalFormat) ==
    [status |-> "ok", error |-> "", headers |-> headers, data |-> data,
     isMultiMetric |-> isMultiMetric, originalFormat |-> originalFormat]

Throw(message) ==
    [status |-> "error", error |-> message, headers |-> <<>>, data |-> <<>>,
     isMultiMetric |-> FALSE, originalFormat |-> ""]

NoResult ==
    [status |-> "none", error |-> "", headers |-> <<>>, data |-> <<>>,
     isMultiMetric |-> FALSE, originalFormat |-> ""]

(***************************************************************************)
(* detectCompoundFormat: row.match(/^[^,]*;[^,]*/) on both rows.            *)
(***************************************************************************)
RECURSIVE matchCompoundCell(_)
matchCompoundCell(row) ==
    IF row = <<>> THEN FALSE
    ELSE IF Head(row) = ";" THEN TRUE
    ELSE IF Head(row) = "," THEN FALSE
    ELSE matchCompoundCell(Tail(row))

detectCompoundFormat(firstRow, secondRow) ==
    matchCompoundCell(firstRow) /\ matchCompoundCell(secondRow)

(***************************************************************************)
(* parseCSVLine: the quote-toggling scan, then the per-cell clean-up.       *)
(***************************************************************************)
\* the scan with no quoted state: every comma ends a cell
RECURSIVE scanLineQuoteBlind(_, _, _, _, _)
scanLineQuoteBlind(line, i, current, inQuotes, result) ==
    IF i > Len(line) THEN Append(result, current)
    ELSE IF line[i] = "\"" THEN scanLineQuoteBlind(line, i + 1, current, inQuotes, result)
    ELSE IF line[i] = ","
         THEN scanLineQuoteBlind(line, i + 1, <<>>, inQuotes, Append(result, current))
    ELSE scanLineQuoteBlind(line, i + 1, Append(current, line[i]), inQuotes, result)

\* for (let i = 0; i < line.length; i++) of parseCSVLine, then
\* result.push(current)
RECURSIVE scanLine(_, _, _, _, _)
scanLine(line, i, current, inQuotes, result) ==
    IF i > Len(line) THEN Append(result, current)
    ELSE IF line[i] = "\"" THEN scanLine(line, i + 1, current, ~inQuotes, result)
    ELSE IF line[i] = "," /\ ~inQuotes
         THEN scanLine(line, i + 1, <<>>, inQuotes, Append(result, current))
    ELSE scanLine(line, i + 1, Append(current, line[i]), inQuotes, result)

cleanCell(cell) == trim(stripQuotes(cell))

parseCSVLine(line) ==
    LET result == scanLine(line, 1, <<>>, FALSE, <<>>)
    IN  [i \in 1..Len(result) |-> cleanCell(result[i])]

(***************************************************************************)
(* cleanHeaders                                                             *)
(***************************************************************************)
IOITSecure == <<"I", "O", "I", "T", "S", "e", "c", "u", "r", "e">>

Letter ==
    {"a", "b", "c", "d", "e", "f", "g", "h", "i", "j", "k", "l", "m",
     "n", "o", "p", "q", "r", "s", "t", "u", "v", "w", "x", "y", "z",
     "A", "B", "C", "D", "E", "F", "G", "H", "I", "J", "K", "L", "M",
     "N", "O", "P", "Q", "R", "S", "T", "U", "V", "W", "X", "Y", "Z"}

RECURSIVE alnumRun(_)
alnumRun(s) ==
    IF s # <<>> /\ Head(s) \in Letter \cup Digit
    THEN <<Head(s)>> \o alnumRun(Tail(s))
    ELSE <<>>

\* the prefix pattern widened to any device tag: /^[A-Za-z0-9]+\s*>\s*/
stripAnyDevicePrefix(header) ==
    LET tag == alnumRun(header)
        b   == trimStart(drop(header, Len(tag)))
    IN  IF tag # <<>> /\ b # <<>> /\ Head(b) = ">"
        THEN trimStart(Tail(b))
        ELSE header

\* header.replace(/^IOITSecure\d+\s*>\s*/g, '')
stripDevicePrefix(header) ==
    IF ~startsWith(header, IOITSecure) THEN header
    ELSE LET a  == drop(header, Len(IOITSecure))
             ds == digitRun(a)
             b  == trimStart(drop(a, Len(ds)))
         IN  IF ds # <<>> /\ b # <<>> /\ Head(b) = ">"
             THEN trimStart(Tail(b))
             ELSE header

cleanName(header) == stripDevicePrefix(trim(header))

\* seen.has(key) / seen.get(key) on the Map<string, number>
SeenHas(seen, key) == key \in DOMAIN seen

\* cleanStep without seen.set(cleanHeader, count) in the duplicate branch
cleanStepCountNotStored(st, header) ==
    LET cleanHeader == cleanName(header)
    IN  IF SeenHas(st.seen, cleanHeader)
        THEN LET count == st.seen[cleanHeader] + 1
             IN  [cleaned |-> Append(st.cleaned,
                                     cleanHeader \o <<" ">> \o numberToString(count)),
                  seen    |-> st.seen]
        ELSE [cleaned |-> Append(st.cleaned, cleanHeader),
              seen    |-> Put(st.seen, cleanHeader, 1)]

\* one turn of headers.forEach: st = [cleaned, seen]
cleanStep(st, header) ==
    LET cleanHeader == cleanName(header)
    IN  IF SeenHas(st.seen, cleanHeader)
        THEN LET count == st.seen[cleanHeader] + 1
             IN  [cleaned |-> Append(st.cleaned,
                                     cleanHeader \o <<" ">> \o numberToString(count)),
                  seen    |-> Put(st.seen, cleanHeader, count)]
        ELSE [cleaned |-> Append(st.cleaned, cleanHeader),
              seen    |-> Put(st.seen, cleanHeader, 1)]

RECURSIVE cleanLoop(_, _)
cleanLoop(headers, st) ==
    IF headers = <<>> THEN st
    ELSE cleanLoop(Tail(headers), cleanStep(st, Head(headers)))

cleanHeaders(headers) == cleanLoop(headers, [cleaned |-> <<>>, seen |-> <<>>]).cleaned

(***************************************************************************)
(* parseStandardCSV                                                         *)
(***************************************************************************)
\* lines[0].split(',').map(h => h.trim().replace(/^"|"$/g, ''))
standardHeader(h) == stripQuotes(trim(h))

standardHeaders(line) ==
    LET raw == split(line, ",")
    IN  [i \in 1..Len(raw) |-> standardHeader(raw[i])]

\* standardRow with the guard's missing else: a header without a cell gets ''
RECURSIVE standardRowPadded(_, _, _, _)
standardRowPadded(headers, values, i, row) ==
    IF i > Len(headers) THEN row
    ELSE standardRowPadded(headers, values, i + 1,
                           IF i <= Len(values)
                           THEN Put(row, headers[i], coerce(values[i]))
                           ELSE Put(row, headers[i], Str(<<>>)))

\* headers.forEach((header, i) => { if (i < values.length) row[header] = ... })
RECURSIVE standardRow(_, _, _, _)
standardRow(headers, values, i, row) ==
    IF i > Len(headers) THEN row
    ELSE standardRow(headers, values, i + 1,
                     IF i <= Len(values)
                     THEN Put(row, headers[i], coerce(values[i]))
                     ELSE row)

parseStandardCSV(text) ==
    LET lines   == split(trim(text), "\n")
        headers == standardHeaders(lines[1])
        rest    == Tail(lines)
        rows    == [k \in 1..Len(rest) |->
                       standardRow(headers, parseCSVLine(rest[k]), 1, EmptyRow)]
        data    == filterNonEmpty(rows)
    IN  Result(headers, data, FALSE, "standard")

(***************************************************************************)
(* parseCompoundCSV                                                         *)
(***************************************************************************)
\* firstRow.forEach: a cell with ';' is split into trimmed sub-headers
RECURSIVE compoundHeaders(_)
compoundHeaders(firstRow) ==
    IF firstRow = <<>> THEN <<>>
    ELSE (IF includes(Head(firstRow), ";")
          THEN trimAll(split(Head(firstRow), ";"))
          ELSE <<trim(Head(firstRow))>>)
         \o compoundHeaders(Tail(firstRow))

\* assignValues without the bound on headerIndex: a sub-value beyond the
\* headers is stored under the last header
RECURSIVE assignValuesOverwritingLast(_, _, _)
assignValuesOverwritingLast(values, headers, st) ==
    IF values = <<>> THEN st
    ELSE assignValuesOverwritingLast(Tail(values), headers,
             IF st.headerIndex < Len(headers)
             THEN [row |-> Put(st.row, headers[st.headerIndex + 1],
                               coerce(Head(values))),
                   headerIndex |-> st.headerIndex + 1]
             ELSE [row |-> Put(st.row, headers[Len(headers)],
                               coerce(Head(values))),
                   headerIndex |-> st.headerIndex])

\* values.forEach(value => { if (headerIndex < headers.length) ... })
\* st = [row, headerIndex], headerIndex counted from 0 as in the source
RECURSIVE assignValues(_, _, _)
assignValues(values, headers, st) ==
    IF values = <<>> THEN st
    ELSE assignValues(Tail(values), headers,
             IF st.headerIndex < Len(headers)
             THEN [row |-> Put(st.row, headers[st.headerIndex + 1],
                               coerce(Head(values))),
                   headerIndex |-> st.headerIndex + 1]
             ELSE st)

\* value.includes('/') || value.includes(':') || value.includes('-')
looksLikeDate(value) ==
    includes(value, "/") \/ includes(value, ":") \/ includes(value, "-")

\* the body of cells.forEach((cell, cellIndex) => ...)
assignCell(cell, cellIndex, headers, st) ==
    IF includes(cell, ";")
    THEN assignValues(trimAll(split(cell, ";")), headers, st)
    ELSE IF st.headerIndex < Len(headers)
         THEN LET value == trim(cell)
              IN  [row |-> Put(st.row, headers[st.headerIndex + 1],
                               IF cellIndex = 0 /\ looksLikeDate(value)
                               THEN Str(value)
                               ELSE coerce(value)),
                   headerIndex |-> st.headerIndex + 1]
         ELSE st

RECURSIVE assignCells(_, _, _, _)
assignCells(cells, cellIndex, headers, st) ==
    IF cellIndex >= Len(cells) THEN st
    ELSE assignCells(cells, cellIndex + 1, headers,
                     assignCell(cells[cellIndex + 1], cellIndex, headers, st))

compoundRow(line, headers) ==
    assignCells(parseCSVLine(line), 0, headers,
                [row |-> EmptyRow, headerIndex |-> 0]).row

\* for (let i = 1; i < lines.length; i++): i counts from 0 as in the source
RECURSIVE compoundData(_, _, _, _)
compoundData(lines, i, headers, data) ==
    IF i >= Len(lines) THEN data
    ELSE LET line == trim(lines[i + 1])
         IN  IF line = <<>>
             THEN compoundData(lines, i + 1, headers, data)
             ELSE LET row == compoundRow(line, headers)
                  IN  compoundData(lines, i + 1, headers,
                                   IF KeyCount(row) > 0 THEN Append(data, row)
                                   ELSE data)

parseCompoundCSV(text) ==
    LET lines == split(trim(text), "\n")
    IN  IF Len(lines) < 2
        THEN Throw("Invalid CSV format: Not enough rows")
        ELSE LET headers == cleanHeaders(compoundHeaders(parseCSVLine(lines[1])))
             IN  Result(headers, compoundData(lines, 1, headers, <<>>),
                        TRUE, "compound")

(***************************************************************************)
(* The metric categorizers: metricGroups of the chart component and         *)
(* groupMetricsByCategory of the parser module.                             *)
(***************************************************************************)
UpperCase ==
    <<"A", "B", "C", "D", "E", "F", "G", "H", "I", "J", "K", "L", "M",
      "N", "O", "P", "Q", "R", "S", "T", "U", "V", "W", "X", "Y", "Z">>

LowerCase ==
    <<"a", "b", "c", "d", "e", "f", "g", "h", "i", "j", "k", "l", "m",
      "n", "o", "p", "q", "r", "s", "t", "u", "v", "w", "x", "y", "z">>

\* header.toLowerCase()
toLowerCase(s) ==
    [i \in 1..Len(s) |->
        IF \E k \in 1..Len(UpperCase) : UpperCase[k] = s[i]
        THEN LowerCase[CHOOSE k \in 1..Len(UpperCase) : UpperCase[k] = s[i]]
        ELSE s[i]]

\* s.includes(sub) for a text sub
includesText(s, sub) ==
    \E i \in 0..(Len(s) - Len(sub)) : SubSeq(s, i + 1, i + Len(sub)) = sub

\* the chain of metricGroups with the 'frequency' test moved above the
\* 'time' test
metricCategoryFrequencyFirst(header) ==
    LET h == toLowerCase(header)
    IN  IF includesText(h, <<"v", "o", "l", "t", "a", "g", "e">>) THEN "Voltage"
        ELSE IF includesText(h, <<"p", "f">>) \/ includesText(h, <<"p", "o", "w", "e", "r", " ", "f", "a", "c", "t", "o", "r">>)
             THEN "Power Factor"
        ELSE IF includesText(h, <<"c", "u", "r", "r", "e", "n", "t">>) THEN "Current"
        ELSE IF includesText(h, <<"p", "o", "w", "e", "r">>) /\ ~includesText(h, <<"f", "a", "c", "t", "o", "r">>)
             THEN "Power"
        ELSE IF includesText(h, <<"f", "r", "e", "q", "u", "e", "n", "c", "y">>) THEN "Frequency"
        ELSE IF includesText(h, <<"t", "i", "m", "e">>) \/ includesText(h, <<"t", "i", "m", "e", "s", "t", "a", "m", "p">>)
             THEN "Time"
        ELSE "Other"

\* the if / else-if chain of metricGroups
metricCategory(header) ==
    LET h == toLowerCase(header)
    IN  IF includesText(h, <<"v", "o", "l", "t", "a", "g", "e">>) THEN "Voltage"
        ELSE IF includesText(h, <<"p", "f">>) \/ includesText(h, <<"p", "o", "w", "e", "r", " ", "f", "a", "c", "t", "o", "r">>)
             THEN "Power Factor"
        ELSE IF includesText(h, <<"c", "u", "r", "r", "e", "n", "t">>) THEN "Current"
        ELSE IF includesText(h, <<"p", "o", "w", "e", "r">>) /\ ~includesText(h, <<"f", "a", "c", "t", "o", "r">>)
             THEN "Power"
        ELSE IF includesText(h, <<"t", "i", "m", "e">>) \/ includesText(h, <<"t", "i", "m", "e", "s", "t", "a", "m", "p">>)
             THEN "Time"
        ELSE IF includesText(h, <<"f", "r", "e", "q", "u", "e", "n", "c", "y">>) THEN "Frequency"
        ELSE "Other"

\* the if / else-if chain of groupMetricsByCategory
parserCategory(header) ==
    IF includesText(header, <<"V", "o", "l", "t", "a", "g", "e">>) THEN "Voltage"
    ELSE IF includesText(header, <<"P", "F">>) \/ includesText(header, <<"P", "o", "w", "e", "r", " ", "F", "a", "c", "t", "o", "r">>)
         THEN "Power Factor"
    ELSE IF includesText(header, <<"C", "u", "r", "r", "e", "n", "t">>) THEN "Current"
    ELSE IF includesText(header, <<"P", "o", "w", "e", "r">>) THEN "Power"
    ELSE IF includesText(header, <<"T", "I", "M", "E">>) \/ includesText(header, <<"T", "i", "m", "e">>)
         THEN "Time"
    ELSE "Other"

\* new Map(): a Map is kept as its entries [category, headers] in
\* insertion order
NoGroups == <<>>

GroupsHas(groups, category) ==
    \E i \in 1..Len(groups) : groups[i].category = category

\* if (!groups.has(category)) groups.set(category, []);
\* groups.get(category).push(header)
GroupsPush(groups, category, header) ==
    LET g == IF GroupsHas(groups, category) THEN groups
             ELSE Append(groups, [category |-> category, headers |-> <<>>])
    IN  [i \in 1..Len(g) |->
            IF g[i].category = category
            THEN [g[i] EXCEPT !.headers = Append(@, header)]
            ELSE g[i]]

\* headers.forEach(header => ...) of metricGroups, from the i-th header on
RECURSIVE metricGroupsFrom(_, _, _)
metricGroupsFrom(headers, i, groups) ==
    IF i > Len(headers) THEN groups
    ELSE metricGroupsFrom(headers, i + 1,
             GroupsPush(groups, metricCategory(headers[i]), headers[i]))

metricGroups(headers) == metricGroupsFrom(headers, 1, NoGroups)

\* headers.forEach(header => ...) of groupMetricsByCategory
RECURSIVE groupMetricsFrom(_, _, _)
groupMetricsFrom(headers, i, groups) ==
    IF i > Len(headers) THEN groups
    ELSE groupMetricsFrom(headers, i + 1,
             GroupsPush(groups, parserCategory(headers[i]), headers[i]))

groupMetricsByCategory(headers) == groupMetricsFrom(headers, 1, NoGroups)

(***************************************************************************)
(* parseCSV                                                                 *)
(***************************************************************************)
\* the catch block: any Error thrown by a parser is rethrown wrapped
rethrow(r) == IF r.status = "error" THEN Throw("Failed to parse CSV") ELSE r

\* parseCSV counting the lines of the text as given, not of the trimmed text
parseCSVUntrimmed(text) ==
    IF text = <<>> \/ trim(text) = <<>>
    THEN Throw("Empty CSV content")
    ELSE LET lines == split(text, "\n")
         IN  IF Len(lines) < 2
             THEN Throw("CSV must have at least a header row and one data row")
             ELSE IF detectCompoundFormat(lines[1], lines[2])
                  THEN rethrow(parseCompoundCSV(text))
                  ELSE rethrow(parseStandardCSV(text))

parseCSV(text) ==
    IF text = <<>> \/ trim(text) = <<>>
    THEN Throw("Empty CSV content")
    ELSE LET lines == split(trim(text), "\n")
         IN  IF Len(lines) < 2
             THEN Throw("CSV must have at least a header row and one data row")
             ELSE IF detectCompoundFormat(lines[1], lines[2])
                  THEN rethrow(parseCompoundCSV(text))
                  ELSE rethrow(parseStandardCSV(text))

(***************************************************************************)
(* Inputs.                                                                  *)
(***************************************************************************)
Alphabet == {"a", "1", ",", ";", "\n", " ", "\"", "-", "."}

\* the documented compound layout (COMPOUND_CSV_IMPLEMENTATION.md, "How it works")
DocCompoundText ==
    <<"T", "I", "M", "E", ";", "R", " ", "P", "h", " ", "V", "o", "l", "t", "a",
      "g", "e", ";", "Y", " ", "P", "h", " ", "V", "o", "l", "t", "a", "g", "e",
      ";", "B", " ", "P", "h", " ", "V", "o", "l", "t", "a", "g", "e", "\n",
      "0", "6", "/", "0", "9", "/", "2", "0", "2", "5", " ", "0", "0", ":", "0",
      "0", ":", "0", "0", ",", "2", "3", "5", ";", "2", "3", "6", ";", "2", "3",
      "7">>

\* "TIME;V1;V2\n2025-01-01 00:00:00,10;20"
CompoundScenarioText ==
    <<"T", "I", "M", "E", ";", "V", "1", ";", "V", "2", "\n", "2", "0", "2", "5",
      "-", "0", "1", "-", "0", "1", " ", "0", "0", ":", "0", "0", ":", "0", "0",
      ",", "1", "0", ";", "2", "0">>

\* "Date,Temperature\n2025-01-01,23.5\n2025-01-02,24.1"
StandardScenarioText ==
    <<"D", "a", "t", "e", ",", "T", "e", "m", "p", "e", "r", "a", "t", "u", "r",
      "e", "\n", "2", "0", "2", "5", "-", "0", "1", "-", "0", "1", ",", "2", "3",
      ".", "5", "\n", "2", "0", "2", "5", "-", "0", "1", "-", "0", "2", ",", "2",
      "4", ".", "1">>

\* "T;A;B\n1;2;3;4\n5;6": a row with a sub-value too many, a row with one
\* too few
RaggedCompoundText ==
    <<"T", ";", "A", ";", "B", "\n", "1", ";", "2", ";", "3", ";", "4", "\n",
      "5", ";", "6">>

\* "\"a,b\",c\n1,2": a quoted header holding a comma
QuotedHeaderText ==
    <<"\"", "a", ",", "b", "\"", ",", "c", "\n", "1", ",", "2">>

ScenarioTexts ==
    {DocCompoundText, CompoundScenarioText, StandardScenarioText,
     RaggedCompoundText, QuotedHeaderText}

BoundedTexts == UNION {[1..n -> Alphabet] : n \in 0..MaxLen}

Texts == BoundedTexts \cup ScenarioTexts

(***************************************************************************)
(* JavaScript Date, as the chart component uses it.  A Date is a point of   *)
(* the local time line: the number of its local day (day 0 is 1970-01-01)   *)
(* and the second of that day; the calendar fields are computed from them.  *)
(***************************************************************************)
Undefined == [t |-> "undefined", s |-> <<>>, n |-> 0, d |-> 0]

\* row[key]
Get(row, key) == IF key \in DOMAIN row THEN row[key] ELSE Undefined

\* !value
Falsy(v) ==
    \/ v.t \in {"undefined", "NaN"}
    \/ v.t = "string" /\ v.s = <<>>
    \/ v.t = "number" /\ v.n = 0

InvalidDate == [valid |-> FALSE, days |-> 0, secs |-> 0]

\* the day number of the civil date y-m-d (m from 1), proleptic Gregorian
daysFromCivil(y, m, d) ==
    LET yy  == IF m <= 2 THEN y - 1 ELSE y
        era == yy \div 400
        yoe == yy - era * 400
        mp  == IF m > 2 THEN m - 3 ELSE m + 9
        doy == (153 * mp + 2) \div 5 + d - 1
        doe == yoe * 365 + yoe \div 4 - yoe \div 100 + doy
    IN  era * 146097 + doe - 719468

\* the civil date [y, m, d] (m from 1) of a day number
civilFromDays(days) ==
    LET z   == days + 719468
        era == z \div 146097
        doe == z - era * 146097
        yoe == (doe - doe \div 1460 + doe \div 36524 - doe \div 146096) \div 365
        doy == doe - (365 * yoe + yoe \div 4 - yoe \div 100)
        mp  == (5 * doy + 2) \div 153
        m   == IF mp < 10 THEN mp + 3 ELSE mp - 9
    IN  [y |-> yoe + era * 400 + (IF m <= 2 THEN 1 ELSE 0),
         m |-> m,
         d |-> doy - (153 * mp + 2) \div 5 + 1]

AllDigits(s) == \A i \in 1..Len(s) : s[i] \in Digit

\* new Date(text) for a text 'YYYY-MM-DD HH:MM:SS', read as local time; any
\* other text of the modelled inputs is no date
dateFromText(text) ==
    IF /\ Len(text) = 19
       /\ text[5] = "-" /\ text[8] = "-" /\ text[11] = " "
       /\ text[14] = ":" /\ text[17] = ":"
       /\ AllDigits(SubSeq(text, 1, 4)) /\ AllDigits(SubSeq(text, 6, 7))
       /\ AllDigits(SubSeq(text, 9, 10)) /\ AllDigits(SubSeq(text, 12, 13))
       /\ AllDigits(SubSeq(text, 15, 16)) /\ AllDigits(SubSeq(text, 18, 19))
    THEN LET y  == digitsValue(SubSeq(text, 1, 4), 0)
             m  == digitsValue(SubSeq(text, 6, 7), 0)
             d  == digitsValue(SubSeq(text, 9, 10), 0)
             hh == digitsValue(SubSeq(text, 12, 13), 0)
             mm == digitsValue(SubSeq(text, 15, 16), 0)
             ss == digitsValue(SubSeq(text, 18, 19), 0)
         IN  IF m \in 1..12 /\ d \in 1..31 /\ hh < 24 /\ mm < 60 /\ ss < 60
             THEN [valid |-> TRUE, days |-> daysFromCivil(y, m, d),
                   secs |-> hh * 3600 + mm * 60 + ss]
             ELSE InvalidDate
    ELSE InvalidDate

RECURSIVE PowerOfTen(_)
PowerOfTen(d) == IF d = 0 THEN 1 ELSE 10 * PowerOfTen(d - 1)

\* new Date(number): the number, truncated, is milliseconds since
\* 1970-01-01T00:00:00Z; offset is getTimezoneOffset(), minutes behind UTC
dateFromNumber(v, offset) ==
    LET ms    == IF v.n >= 0 THEN v.n \div PowerOfTen(v.d)
                 ELSE -((-v.n) \div PowerOfTen(v.d))
        local == ms - offset * 60000
    IN  [valid |-> TRUE, days |-> local \div 86400000,
         secs |-> (local % 86400000) \div 1000]

\* new Date(value)
newDate(value, offset) ==
    IF value.t = "string" THEN dateFromText(value.s)
    ELSE IF value.t = "number" THEN dateFromNumber(value, offset)
    ELSE InvalidDate

getFullYear(date) == civilFromDays(date.days).y

\* 0 is January
getMonth(date) == civilFromDays(date.days).m - 1

getDate(date) == civilFromDays(date.days).d

\* the day of the week counted from Monday
getDayFromMonday(date) == (date.days + 3) % 7

\* 0 is Sunday; day 0, 1970-01-01, was a Thursday
getDay(date) == (date.days + 4) % 7

getHours(date) == date.secs \div 3600

getMinutes(date) == (date.secs % 3600) \div 60

getSeconds(date) == date.secs % 60

\* value.toString().padStart(2, '0')
padStart2(n) ==
    IF n < 10 THEN <<"0">> \o numberToString(n) ELSE numberToString(n)

\* parseDate: null is InvalidDate
parseDate(value, offset) ==
    IF Falsy(value) THEN InvalidDate ELSE newDate(value, offset)

formatDateWithSeconds(date) ==
    padStart2(getMonth(date) + 1) \o <<"/">> \o padStart2(getDate(date))
      \o <<" ">> \o padStart2(getHours(date)) \o <<":">>
      \o padStart2(getMinutes(date)) \o <<":">> \o padStart2(getSeconds(date))

getWeekNumber(date) ==
    LET d0        == daysFromCivil(getFullYear(date), getMonth(date) + 1,
                                   getDate(date))
        utcDay    == (d0 + 4) % 7
        dayNum    == IF utcDay = 0 THEN 7 ELSE utcDay
        d1        == d0 + 4 - dayNum
        yearStart == daysFromCivil(civilFromDays(d1).y, 1, 1)
    IN  ((d1 - yearStart) + 1 + 6) \div 7

DAY_ABBR ==
    <<<<"S", "u", "n">>,
      <<"M", "o", "n">>,
      <<"T", "u", "e">>,
      <<"W", "e", "d">>,
      <<"T", "h", "u">>,
      <<"F", "r", "i">>,
      <<"S", "a", "t">>>>

MONTH_ABBR ==
    <<<<"J", "a", "n">>,
      <<"F", "e", "b">>,
      <<"M", "a", "r">>,
      <<"A", "p", "r">>,
      <<"M", "a", "y">>,
      <<"J", "u", "n">>,
      <<"J", "u", "l">>,
      <<"A", "u", "g">>,
      <<"S", "e", "p">>,
      <<"O", "c", "t">>,
      <<"N", "o", "v">>,
      <<"D", "e", "c">>>>

(***************************************************************************)
(* The chart component: date columns, and processedData.                    *)
(***************************************************************************)
Min(a, b) == IF a < b THEN a ELSE b

SampleSize == 10     \* data.slice(0, 10)
RawRowLimit == 50    \* data.slice(0, 50)

\* value.match(/\d{4}/)
matchesFourDigits(s) ==
    \E i \in 1..(Len(s) - 3) : AllDigits(SubSeq(s, i, i + 3))

\* value.match(/\d{1,2}\/\d{1,2}\/\d{2,4}/)
matchesSlashDate(s) ==
    \E i \in 1..Len(s) : \E a \in 1..2 : \E b \in 1..2 :
        /\ i + a + b + 3 <= Len(s)
        /\ AllDigits(SubSeq(s, i, i + a - 1))
        /\ s[i + a] = "/"
        /\ AllDigits(SubSeq(s, i + a + 1, i + a + b))
        /\ s[i + a + b + 1] = "/"
        /\ AllDigits(SubSeq(s, i + a + b + 2, i + a + b + 3))

\* the predicate of sample.some(row => ...)
looksLikeDateValue(value, offset) ==
    /\ ~Falsy(value)
    /\ newDate(value, offset).valid
    /\ value.t = "string"
    /\ \/ includes(value.s, "-")
       \/ includes(value.s, "/")
       \/ includes(value.s, ":")
       \/ matchesFourDigits(value.s)
       \/ matchesSlashDate(value.s)

\* the predicate of headers.filter(header => ...)
isDateHeader(header, data, offset) ==
    \E i \in 1..Min(SampleSize, Len(data)) :
        looksLikeDateValue(Get(data[i], header), offset)

RECURSIVE dateHeaders(_, _, _)
dateHeaders(headers, data, offset) ==
    IF headers = <<>> THEN <<>>
    ELSE (IF isDateHeader(Head(headers), data, offset)
          THEN <<Head(headers)>> ELSE <<>>)
         \o dateHeaders(Tail(headers), data, offset)

\* dateHeaders.includes(xAxis)
isDateAxis(headers, data, x, offset) ==
    \E i \in 1..Len(dateHeaders(headers, data, offset)) :
        dateHeaders(headers, data, offset)[i] = x

OriginalTimestamp == <<"_", "o", "r", "i", "g", "i", "n", "a", "l", "T", "i", "m", "e", "s", "t", "a", "m", "p">>
OriginalKey == <<"_", "o", "r", "i", "g", "i", "n", "a", "l", "K", "e", "y">>

\* the callback of data.map in the branch timeGrouping === 'none', with the
\* condition on isDateAxis left out
rawRowAlwaysFormatted(row, x, isDate, offset) ==
    LET dateValue == Get(row, x)
        date      == parseDate(dateValue, offset)
    IN  IF date.valid
        THEN Put(Put(row, x, Str(formatDateWithSeconds(date))),
                 OriginalTimestamp, dateValue)
        ELSE row

\* the callback of data.map in the branch timeGrouping === 'none'
rawRow(row, x, isDate, offset) ==
    IF isDate
    THEN LET dateValue == Get(row, x)
             date      == parseDate(dateValue, offset)
         IN  IF date.valid
             THEN Put(Put(row, x, Str(formatDateWithSeconds(date))),
                      OriginalTimestamp, dateValue)
             ELSE row
    ELSE row

\* the switch that gives a row's date its groupKey
groupKeyOf(date, grouping) ==
    IF grouping = "days" THEN numberToString(getDay(date))
    ELSE IF grouping = "weeks"
         THEN numberToString(getFullYear(date)) \o <<"-", "W">>
                \o numberToString(getWeekNumber(date))
    ELSE numberToString(getFullYear(date)) \o <<"-">>
           \o numberToString(getMonth(date))

\* the switch that gives a row's date its groupLabel
groupLabelOf(date, grouping) ==
    IF grouping = "days" THEN DAY_ABBR[getDay(date) + 1]
    ELSE IF grouping = "weeks"
         THEN <<"W", "e", "e", "k", " ">> \o numberToString(getWeekNumber(date))
    ELSE MONTH_ABBR[getMonth(date) + 1]

\* grouped: a Map, kept as its entries [key, values, count, label] in
\* insertion order; values is the Map from a column to its numbers
GroupedHas(grouped, key) == \E i \in 1..Len(grouped) : grouped[i].key = key

\* yAxesToAggregate.forEach: the numbers of the row are pushed
RECURSIVE pushValues(_, _, _)
pushValues(values, row, yKeys) ==
    IF yKeys = <<>> THEN values
    ELSE LET yAxisKey == Head(yKeys)
             yValue   == Get(row, yAxisKey)
         IN  pushValues(IF IsNumber(yValue)
                        THEN Put(values, yAxisKey,
                                 Append(IF yAxisKey \in DOMAIN values
                                        THEN values[yAxisKey] ELSE <<>>,
                                        yValue))
                        ELSE values,
                        row, Tail(yKeys))

\* the body of data.forEach for a row with a date
addToGroup(grouped, row, date, grouping, yKeys) ==
    LET key == groupKeyOf(date, grouping)
        g   == IF GroupedHas(grouped, key) THEN grouped
               ELSE Append(grouped,
                           [key |-> key, values |-> EmptyRow, count |-> 0,
                            label |-> groupLabelOf(date, grouping)])
    IN  [i \in 1..Len(g) |->
            IF g[i].key = key
            THEN [g[i] EXCEPT !.values = pushValues(@, row, yKeys),
                              !.count = @ + 1]
            ELSE g[i]]

\* a forEach without `if (!date) return': a row without a date is grouped
\* as if its date were 1970-01-01
RECURSIVE groupRowsUnfiltered(_, _, _, _, _, _, _)
groupRowsUnfiltered(data, i, grouped, x, yKeys, grouping, offset) ==
    IF i > Len(data) THEN grouped
    ELSE LET date == parseDate(Get(data[i], x), offset)
         IN  groupRowsUnfiltered(data, i + 1,
                       addToGroup(grouped, data[i],
                                  IF date.valid THEN date
                                  ELSE [valid |-> TRUE, days |-> 0, secs |-> 0],
                                  grouping, yKeys),
                       x, yKeys, grouping, offset)

\* data.forEach(row => ...): rows without a date are passed over
RECURSIVE groupRows(_, _, _, _, _, _, _)
groupRows(data, i, grouped, x, yKeys, grouping, offset) ==
    IF i > Len(data) THEN grouped
    ELSE LET date == parseDate(Get(data[i], x), offset)
         IN  groupRows(data, i + 1,
                       IF date.valid
                       THEN addToGroup(grouped, data[i], date, grouping, yKeys)
                       ELSE grouped,
                       x, yKeys, grouping, offset)

\* a + b of two numbers
Plus(a, b) ==
    LET d == IF a.d > b.d THEN a.d ELSE b.d
    IN  Number(a.n * PowerOfTen(d - a.d) + b.n * PowerOfTen(d - b.d), d)

\* a reduce that keeps only the element it is at: (a, b) => b
sumOfLastOnly(values) ==
    IF values = <<>> THEN Number(0, 0) ELSE values[Len(values)]

\* values.reduce((a, b) => a + b, 0)
RECURSIVE sumOf(_)
sumOf(values) ==
    IF values = <<>> THEN Number(0, 0)
    ELSE Plus(sumOf(SubSeq(values, 1, Len(values) - 1)), values[Len(values)])

\* parseFloat((num / den).toFixed(2)), den > 0: the nearest multiple of
\* 0.01, a tie going away from zero (the quotients of the modelled inputs
\* have no tie that binary floating point would misplace)
toFixed2(num, den) ==
    LET mag == IF num >= 0 THEN num ELSE -num
        q   == (200 * mag + den) \div (2 * den)
    IN  Number(IF num >= 0 THEN q ELSE -q, 2)

\* the count branch without the test values.length > 0
aggregateCountingAlways(group, yAxisKey, method) ==
    LET values == IF yAxisKey \in DOMAIN group.values
                  THEN group.values[yAxisKey] ELSE <<>>
    IN  IF method = "count" THEN toFixed2(group.count, 1)
        ELSE IF values = <<>> THEN toFixed2(0, 1)
        ELSE IF method = "sum"
             THEN toFixed2(sumOf(values).n, PowerOfTen(sumOf(values).d))
        ELSE toFixed2(sumOf(values).n, PowerOfTen(sumOf(values).d) * Len(values))

\* the average taken over the rows of the group: sum / group.count
aggregateDividingByCount(group, yAxisKey, method) ==
    LET values == IF yAxisKey \in DOMAIN group.values
                  THEN group.values[yAxisKey] ELSE <<>>
    IN  IF values = <<>> THEN toFixed2(0, 1)
        ELSE IF method = "sum"
             THEN toFixed2(sumOf(values).n, PowerOfTen(sumOf(values).d))
        ELSE IF method = "average"
             THEN toFixed2(sumOf(values).n, PowerOfTen(sumOf(values).d) * group.count)
        ELSE toFixed2(group.count, 1)

\* aggregatedValue of a column of a group, through toFixed(2)
aggregate(group, yAxisKey, method) ==
    LET values == IF yAxisKey \in DOMAIN group.values
                  THEN group.values[yAxisKey] ELSE <<>>
    IN  IF values = <<>> THEN toFixed2(0, 1)
        ELSE IF method = "sum"
             THEN toFixed2(sumOf(values).n, PowerOfTen(sumOf(values).d))
        ELSE IF method = "average"
             THEN toFixed2(sumOf(values).n, PowerOfTen(sumOf(values).d) * Len(values))
        ELSE toFixed2(group.count, 1)

\* a forEach that sets only the columns the group has numbers for
RECURSIVE aggregateIntoSkippingEmpty(_, _, _, _)
aggregateIntoSkippingEmpty(aggregatedRow, group, yKeys, method) ==
    IF yKeys = <<>> THEN aggregatedRow
    ELSE aggregateIntoSkippingEmpty(
             IF Head(yKeys) \in DOMAIN group.values
             THEN Put(aggregatedRow, Head(yKeys),
                      aggregate(group, Head(yKeys), method))
             ELSE aggregatedRow,
             group, Tail(yKeys), method)

\* yAxesToAggregate.forEach(yAxisKey => aggregatedRow[yAxisKey] = ...)
RECURSIVE aggregateInto(_, _, _, _)
aggregateInto(aggregatedRow, group, yKeys, method) ==
    IF yKeys = <<>> THEN aggregatedRow
    ELSE aggregateInto(Put(aggregatedRow, Head(yKeys),
                           aggregate(group, Head(yKeys), method)),
                       group, Tail(yKeys), method)

\* the callback of Array.from(grouped.entries()).map
aggregatedRowOf(group, x, yKeys, method) ==
    aggregateInto(Put(Put(EmptyRow, x, Str(group.label)),
                      OriginalKey, Str(group.key)),
                  group, yKeys, method)

\* DAY_ABBR.indexOf(value), MONTH_ABBR.indexOf(value): -1 when absent
indexOf(names, value) ==
    IF \E i \in 1..Len(names) : Str(names[i]) = value
    THEN (CHOOSE i \in 1..Len(names) : Str(names[i]) = value) - 1
    ELSE -1

\* the rank of a character of a group key in the collation localeCompare
\* uses: punctuation, then digits, then letters
CollationRank(c) ==
    IF c = "-" THEN 0 ELSE IF c \in Digit THEN 1 + DigitValue(c) ELSE 11

\* a.localeCompare(b) of two group keys
RECURSIVE localeCompare(_, _)
localeCompare(a, b) ==
    IF a = <<>> /\ b = <<>> THEN 0
    ELSE IF a = <<>> THEN -1
    ELSE IF b = <<>> THEN 1
    ELSE IF CollationRank(Head(a)) < CollationRank(Head(b)) THEN -1
    ELSE IF CollationRank(Head(a)) > CollationRank(Head(b)) THEN 1
    ELSE localeCompare(Tail(a), Tail(b))

\* a comparator that orders the rows of every grouping by their group key
compareRowsByKey(a, b, x, grouping) ==
    localeCompare(a[OriginalKey].s, b[OriginalKey].s)

\* the comparator handed to result.sort
compareRows(a, b, x, grouping) ==
    IF grouping = "days"
    THEN indexOf(DAY_ABBR, Get(a, x)) - indexOf(DAY_ABBR, Get(b, x))
    ELSE IF grouping = "weeks"
         THEN localeCompare(a[OriginalKey].s, b[OriginalKey].s)
    ELSE indexOf(MONTH_ABBR, Get(a, x)) - indexOf(MONTH_ABBR, Get(b, x))

\* result.sort(...): a stable sort; row goes behind the rows it does not
\* come before
RECURSIVE insertSorted(_, _, _, _)
insertSorted(sorted, row, x, grouping) ==
    IF sorted = <<>> THEN <<row>>
    ELSE IF compareRows(sorted[Len(sorted)], row, x, grouping) <= 0
         THEN Append(sorted, row)
    ELSE Append(insertSorted(SubSeq(sorted, 1, Len(sorted) - 1), row, x, grouping),
                sorted[Len(sorted)])

RECURSIVE sortRows(_, _, _)
sortRows(rows, x, grouping) ==
    IF rows = <<>> THEN <<>>
    ELSE insertSorted(sortRows(SubSeq(rows, 1, Len(rows) - 1), x, grouping),
                      rows[Len(rows)], x, grouping)

\* viewMode === 'multi' ? selectedYAxes : [yAxis]
yAxesToAggregate(view, selected, y) ==
    IF view = "multi" THEN selected ELSE <<y>>

\* processedData with the 50-row limit in the branch timeGrouping === 'none'
processedDataRawLimited(data, x, yKeys, grouping, method, isDate, offset) ==
    IF ~isDate
    THEN SubSeq(data, 1, Min(RawRowLimit, Len(data)))
    ELSE IF grouping = "none"
         THEN [i \in 1..Len(data) |-> rawRow(data[i], x, isDate, offset)]
    ELSE CHOOSE sorted \in
           { sortRows(result, x, grouping) :
               result \in
                 { [i \in 1..Len(grouped) |->
                       aggregatedRowOf(grouped[i], x, yKeys, method)] :
                     grouped \in
                       { groupRows(data, 1, <<>>, x, yKeys, grouping, offset) } } } :
           TRUE

\* the useMemo callback of processedData; the Map `grouped' and the array
\* `result' are each built once and then bound, as the callback's consts are
processedDataOf(data, x, yKeys, grouping, method, isDate, offset) ==
    IF grouping = "none"
    THEN [i \in 1..Len(data) |-> rawRow(data[i], x, isDate, offset)]
    ELSE IF ~isDate
         THEN SubSeq(data, 1, Min(RawRowLimit, Len(data)))
    ELSE CHOOSE sorted \in
           { sortRows(result, x, grouping) :
               result \in
                 { [i \in 1..Len(grouped) |->
                       aggregatedRowOf(grouped[i], x, yKeys, method)] :
                     grouped \in
                       { groupRows(data, 1, <<>>, x, yKeys, grouping, offset) } } } :
           TRUE

(***************************************************************************)
(* The server's POST /parse-csv (src/unnamed/part_000) and the Dashboard's  *)
(* handlers (components/GlowingLoader.tsx).  A handler runs to its end      *)
(* before the next one starts; what the network answers is an input.        *)
(***************************************************************************)
\* Number(value) of a string: 0 for a blank one, the value of a decimal
\* literal, NaN for any other text of the modelled alphabet
stringToNumber(value) ==
    LET s    == trim(value)
        body == IF s # <<>> /\ s[1] \in {"+", "-"} THEN Tail(s) ELSE s
    IN  IF s = <<>> THEN Number(0, 0)
        ELSE IF /\ \A i \in 1..Len(body) : body[i] \in Digit \cup {"."}
                /\ Cardinality({i \in 1..Len(body) : body[i] = "."}) <= 1
                /\ \E i \in 1..Len(body) : body[i] \in Digit
             THEN parseFloat(s)
        ELSE NaN

\* headers.forEach((header, index) => row[header] = ...) of POST /parse-csv
RECURSIVE serverRow(_, _, _, _)
serverRow(headers, values, index, row) ==
    IF index > Len(headers) THEN row
    ELSE LET value == IF index <= Len(values) THEN values[index] ELSE <<>>
         IN  serverRow(headers, values, index + 1,
                       Put(row, headers[index],
                           IF isNaN(stringToNumber(value)) THEN Str(value)
                           ELSE stringToNumber(value)))

\* the body of POST /parse-csv for an authorized request: status 400
\* without content, else the headers and rows of the basic parser
serverParseCSV(csvContent) ==
    IF csvContent = <<>>
    THEN [status |-> 400, headers |-> <<>>, data |-> <<>>]
    ELSE LET lines   == split(trim(csvContent), "\n")
             headers == standardHeaders(lines[1])
         IN  [status |-> 200, headers |-> headers,
              data |-> [k \in 1..(Len(lines) - 1) |->
                           serverRow(headers, standardHeaders(lines[k + 1]), 1,
                                     EmptyRow)]]

\* the notifications
SessionExpired == "Session expired. Please log in again."
ProcessingLocally == "Processing file locally..."
LoadedMultiMetric == "Loaded multi-metric data"
FailedToParse == "Failed to parse CSV. Please check the file format and try again."
FailedToProcess == "Failed to process file. Please check the file format and try again."
FailedToLoad == "Failed to load file. Please try again."
UploadedSuccessfully == "uploaded successfully!"
LoadedSuccessfully == "loaded successfully!"
FileLoadedSuccessfully == "File loaded successfully!"

\* what a request to the server comes to: answered, refused with 401 (or no
\* valid session to ask with), or failed
Answers == {"ok", "unauthorized", "failed"}

\* Dashboard.parseCSV: what it sets and shows; `set' tells whether headers,
\* csvData and isMultiMetric are set
NothingParsed(shown, logout) ==
    [set |-> FALSE, headers |-> <<>>, data |-> <<>>, isMultiMetric |-> FALSE,
     toasts |-> shown, logout |-> logout]

\* client is what parseCSVFile gave or threw, server the response of POST
\* /parse-csv
parseOutcome(client, server, answer) ==
    IF client.status = "ok"
    THEN [set |-> TRUE, headers |-> client.headers, data |-> client.data,
          isMultiMetric |-> client.isMultiMetric,
          toasts |-> IF client.isMultiMetric THEN {LoadedMultiMetric} ELSE {},
          logout |-> FALSE]
    ELSE IF answer = "unauthorized"
         THEN NothingParsed({SessionExpired}, TRUE)
    ELSE IF answer = "failed" \/ server.status # 200
         THEN NothingParsed({FailedToParse}, FALSE)
    ELSE [set |-> TRUE, headers |-> server.headers, data |-> server.data,
          isMultiMetric |-> FALSE, toasts |-> {}, logout |-> FALSE]

dashboardParseCSV(csvContent, answer) ==
    CHOOSE outcome \in
        { parseOutcome(client, server, answer) :
            client \in {parseCSV(csvContent)},
            server \in {serverParseCSV(csvContent)} } : TRUE

(***************************************************************************)
(* Each specification below exercises one function; the arguments and       *)
(* results of the other functions stay at these values.                     *)
(***************************************************************************)
ParserIdle == csvText = <<>> /\ parsed = NoResult

HeadersIdle == rawHeaders = <<>> /\ cleaned = <<>>

LineIdle == lineText = <<>> /\ lineCells = <<>>

CategoryIdle ==
    categoryHeaders = <<>> /\ chartGroups = NoGroups /\ parserGroups = NoGroups

ChartIdle ==
    /\ chartData = <<>> /\ chartHeaders = <<>> /\ timezoneOffset = 0
    /\ xAxis = <<>> /\ yAxis = <<>> /\ selectedYAxes = <<>>
    /\ viewMode = "single" /\ timeGrouping = "none"
    /\ aggregationMethod = "average"
    /\ processedData = <<>>

DashboardIdle ==
    /\ dashHeaders = <<>> /\ csvData = <<>> /\ dashIsMultiMetric = FALSE
    /\ currentFileName = "" /\ uploadHistory = <<>> /\ activeTab = "dashboard"
    /\ loggedOut = FALSE /\ toasts = {} /\ handledFile = "" /\ shownFile = ""

ServerIdle ==
    /\ kvUploads = <<>> /\ kvHistory = <<>> /\ storage = {} /\ requests = <<>>
    /\ clock = 0

AppIdle == DashboardIdle /\ ServerIdle

(***************************************************************************)
(* Spec: parseCSV applied to every text of Texts.                           *)
(***************************************************************************)
Init ==
    /\ csvText \in Texts
    /\ parsed = NoResult
    /\ HeadersIdle
    /\ LineIdle
    /\ CategoryIdle
    /\ ChartIdle
    /\ AppIdle
    /\ pc = "input"

ParseCSV ==
    /\ pc = "input"
    /\ parsed' = parseCSV(csvText)
    /\ pc' = "done"
    /\ UNCHANGED <<csvText, headerVars, lineVars, categoryVars, chartVars, appVars>>

Next == ParseCSV

Spec == Init /\ [][Next]_vars

(***************************************************************************)
(* SpecHeaders: cleanHeaders applied to every list of at most MaxHeaders    *)
(* names of HeaderNames.                                                    *)
(***************************************************************************)
V == <<"V">>
VSpace2 == <<"V", " ", "2">>
PaddedV == <<" ", "V", " ">>
Voltage == <<"V", "o", "l", "t", "a", "g", "e">>
RPhVoltage == <<"R", " ", "P", "h", " ", "V", "o", "l", "t", "a", "g", "e">>

\* "IOITSecure447 > R Ph Voltage" (COMPOUND_CSV_IMPLEMENTATION.md, line 177)
DocDeviceHeader == IOITSecure \o <<"4", "4", "7", " ", ">", " ">> \o RPhVoltage

\* "IOITSecure447 > V", "IOITSecure1>V", "IOITSecure > V"
SecureV == IOITSecure \o <<"4", "4", "7", " ", ">", " ", "V">>
SecureTightV == IOITSecure \o <<"1", ">", "V">>
SecureNoNumberV == IOITSecure \o <<" ", ">", " ", "V">>

\* "Device123 > Voltage", "Device123 > V"
Device123 == <<"D", "e", "v", "i", "c", "e", "1", "2", "3">>
OtherDeviceHeader == Device123 \o <<" ", ">", " ">> \o Voltage
OtherDeviceV == Device123 \o <<" ", ">", " ", "V">>

HeaderNames ==
    {V, VSpace2, PaddedV, Voltage, DocDeviceHeader, SecureV, SecureTightV,
     SecureNoNumberV, OtherDeviceHeader, OtherDeviceV}

HeaderLists == UNION {[1..n -> HeaderNames] : n \in 0..MaxHeaders}

InitHeaders ==
    /\ rawHeaders \in HeaderLists
    /\ cleaned = <<>>
    /\ ParserIdle
    /\ LineIdle
    /\ CategoryIdle
    /\ ChartIdle
    /\ AppIdle
    /\ pc = "input"

CleanHeaders ==
    /\ pc = "input"
    /\ cleaned' = cleanHeaders(rawHeaders)
    /\ pc' = "done"
    /\ UNCHANGED <<rawHeaders, parserVars, lineVars, categoryVars, chartVars, appVars>>

NextHeaders == CleanHeaders

SpecHeaders == InitHeaders /\ [][NextHeaders]_vars

(***************************************************************************)
(* SpecLine: parseCSVLine applied to every line of at most MaxLineLen       *)
(* characters of LineAlphabet.                                              *)
(***************************************************************************)
LineAlphabet == {"a", ",", "\"", " "}

Lines == UNION {[1..n -> LineAlphabet] : n \in 0..MaxLineLen}

InitLine ==
    /\ lineText \in Lines
    /\ lineCells = <<>>
    /\ ParserIdle
    /\ HeadersIdle
    /\ CategoryIdle
    /\ ChartIdle
    /\ AppIdle
    /\ pc = "input"

TokenizeLine ==
    /\ pc = "input"
    /\ lineCells' = parseCSVLine(lineText)
    /\ pc' = "done"
    /\ UNCHANGED <<lineText, parserVars, headerVars, categoryVars, chartVars, appVars>>

NextLine == TokenizeLine

SpecLine == InitLine /\ [][NextLine]_vars

(***************************************************************************)
(* SpecCategory: both categorizers applied to header lists: every header    *)
(* of at most MaxWords words of CategoryWords on its own, and one list of   *)
(* several headers.                                                         *)
(***************************************************************************)
CategoryWords ==
    {<<"V", "o", "l", "t", "a", "g", "e">>, <<"P", "F">>, <<"P", "o", "w", "e", "r">>, <<"F", "a", "c", "t", "o", "r">>, <<"C", "u", "r", "r", "e", "n", "t">>, <<"F", "r", "e", "q", "u", "e", "n", "c", "y">>,
     <<"f", "r", "e", "q", "u", "e", "n", "c", "y">>, <<"T", "i", "m", "e">>, <<"T", "I", "M", "E">>, <<"t", "i", "m", "e", "s", "t", "a", "m", "p">>, <<"R">>}

RECURSIVE JoinWords(_)
JoinWords(ws) ==
    IF Len(ws) = 0 THEN <<>>
    ELSE IF Len(ws) = 1 THEN ws[1]
    ELSE ws[1] \o <<" ">> \o JoinWords(Tail(ws))

CategoryHeaders ==
    {JoinWords(ws) : ws \in UNION {[1..n -> CategoryWords] : n \in 1..MaxWords}}

\* 'R Voltage', 'Frequency', 'TIME', 'Y Voltage', 'Frequency Time'
MixedHeaderList ==
    <<<<"R", " ", "V", "o", "l", "t", "a", "g", "e">>, <<"F", "r", "e", "q", "u", "e", "n", "c", "y">>, <<"T", "I", "M", "E">>, <<"Y", " ", "V", "o", "l", "t", "a", "g", "e">>, <<"F", "r", "e", "q", "u", "e", "n", "c", "y", " ", "T", "i", "m", "e">>>>

CategoryHeaderLists == {<<h>> : h \in CategoryHeaders} \cup {MixedHeaderList}

InitCategory ==
    /\ categoryHeaders \in CategoryHeaderLists
    /\ chartGroups = NoGroups
    /\ parserGroups = NoGroups
    /\ ParserIdle
    /\ HeadersIdle
    /\ LineIdle
    /\ ChartIdle
    /\ AppIdle
    /\ pc = "input"

\* the chart component computes its metricGroups
ChartCategorize ==
    /\ pc = "input"
    /\ chartGroups = NoGroups
    /\ chartGroups' = metricGroups(categoryHeaders)
    /\ pc' = IF parserGroups = NoGroups THEN "input" ELSE "done"
    /\ UNCHANGED <<categoryHeaders, parserGroups, parserVars, headerVars, lineVars, chartVars, appVars>>

\* a call of groupMetricsByCategory
ParserCategorize ==
    /\ pc = "input"
    /\ parserGroups = NoGroups
    /\ parserGroups' = groupMetricsByCategory(categoryHeaders)
    /\ pc' = IF chartGroups = NoGroups THEN "input" ELSE "done"
    /\ UNCHANGED <<categoryHeaders, chartGroups, parserVars, headerVars, lineVars, chartVars, appVars>>

NextCategory == ChartCategorize \/ ParserCategorize

SpecCategory == InitCategory /\ [][NextCategory]_vars

(***************************************************************************)
(* SpecChart: processedData computed for every data set of at most MaxRows  *)
(* rows of ChartRows and for the scenario data sets, under every time       *)
(* grouping, aggregation method and view mode, in two time zones.  The     *)
(* columns are T (the X axis), V1 and V2 (the Y axes).                      *)
(***************************************************************************)
T == <<"T">>
V1 == <<"V", "1">>
V2 == <<"V", "2">>

\* 'YYYY-MM-DD 00:00:00'
Midnight(ymd) == ymd \o <<" ", "0", "0", ":", "0", "0", ":", "0", "0">>

Mon29Dec2025 == Midnight(<<"2", "0", "2", "5", "-", "1", "2", "-", "2", "9">>)
Thu01Jan2026 == Midnight(<<"2", "0", "2", "6", "-", "0", "1", "-", "0", "1">>)
Mon05Jan2026 == Midnight(<<"2", "0", "2", "6", "-", "0", "1", "-", "0", "5">>)
Thu02Jan2025 == Midnight(<<"2", "0", "2", "5", "-", "0", "1", "-", "0", "2">>)

NoDateText == <<"x">>

TimeValues ==
    {Str(Mon29Dec2025), Str(Thu01Jan2026), Str(Mon05Jan2026), Str(Thu02Jan2025),
     Str(NoDateText), Number(5, 0)}

\* the values of T that parse as dates
DateValues ==
    {Str(Mon29Dec2025), Str(Thu01Jan2026), Str(Mon05Jan2026), Str(Thu02Jan2025)}

\* a row has V1 = 10 and V2 = 5 at any T, or V1 = 0.25 and no V2 at a date, or
\* V1 = 'x' and V2 = 5 at one of two dates of the same ISO week
ChartRows ==
    {Put(Put(Put(EmptyRow, T, t), V1, Number(10, 0)), V2, Number(5, 0)) :
         t \in TimeValues}
    \cup {Put(Put(EmptyRow, T, t), V1, Number(25, 2)) : t \in DateValues}
    \cup {Put(Put(Put(EmptyRow, T, t), V1, Str(NoDateText)), V2, Number(5, 0)) :
              t \in {Str(Mon29Dec2025), Str(Thu01Jan2026)}}

\* 51 rows whose T is a number: T is no date column
NumericAxisData ==
    [k \in 1..(RawRowLimit + 1) |->
        Put(Put(EmptyRow, T, Number(k, 0)), V1, Number(10, 0))]

\* 11 rows whose T is a date only in the last row, beyond the sample
LateDateData ==
    [k \in 1..(SampleSize + 1) |->
        Put(Put(EmptyRow, T,
                IF k <= SampleSize THEN Str(NoDateText) ELSE Str(Thu01Jan2026)),
            V1, Number(10, 0))]

ChartDataSets ==
    UNION {[1..n -> ChartRows] : n \in 0..MaxRows}
      \cup {NumericAxisData, LateDateData}

\* UTC, and five hours behind UTC
TimezoneOffsets == {0, 300}

InitChart ==
    /\ chartData \in ChartDataSets
    /\ chartHeaders = <<T, V1, V2>>
    /\ timezoneOffset \in TimezoneOffsets
    /\ xAxis = T
    /\ yAxis = V1
    /\ selectedYAxes = <<V1, V2>>
    /\ viewMode \in {"single", "multi"}
    /\ timeGrouping \in {"none", "days", "weeks", "months"}
    /\ aggregationMethod \in {"sum", "average", "count"}
    /\ processedData = <<>>
    /\ ParserIdle
    /\ HeadersIdle
    /\ LineIdle
    /\ CategoryIdle
    /\ AppIdle
    /\ pc = "input"

\* the component renders: the processedData memo is computed
ComputeProcessedData ==
    /\ pc = "input"
    /\ processedData' =
          processedDataOf(chartData, xAxis,
                          yAxesToAggregate(viewMode, selectedYAxes, yAxis),
                          timeGrouping, aggregationMethod,
                          isDateAxis(chartHeaders, chartData, xAxis, timezoneOffset),
                          timezoneOffset)
    /\ pc' = "done"
    /\ UNCHANGED <<chartProps, chartState, parserVars, headerVars, lineVars,
                   categoryVars, appVars>>

NextChart == ComputeProcessedData

SpecChart == InitChart /\ [][NextChart]_vars

(***************************************************************************)
(* SpecDashboard: uploads and loads of the files of Files, handled by the   *)
(* Dashboard one after the other.                                           *)
(***************************************************************************)
\* "a,b\n1,2"
PlainText == <<"a", ",", "b", "\n", "1", ",", "2">>

\* "a,b": a header row only
HeaderOnlyText == <<"a", ",", "b">>

Files ==
    {[name |-> "plain.csv", content |-> PlainText],
     [name |-> "compound.csv", content |-> CompoundScenarioText],
     [name |-> "header.csv", content |-> HeaderOnlyText],
     [name |-> "empty.csv", content |-> <<>>]}

FileNames == {f.name : f \in Files}

\* the histories GET /upload-history answers with, as file names
Histories == UNION {[1..n -> FileNames] : n \in 0..MaxHistory}

Tabs == {"dashboard", "upload", "history"}

InitDashboard ==
    /\ dashHeaders = <<>> /\ csvData = <<>> /\ dashIsMultiMetric = FALSE
    /\ currentFileName = ""
    /\ uploadHistory \in Histories
    /\ activeTab = "dashboard"
    /\ loggedOut = FALSE
    /\ toasts = {} /\ handledFile = "" /\ shownFile = ""
    /\ ServerIdle
    /\ ParserIdle
    /\ HeadersIdle
    /\ LineIdle
    /\ CategoryIdle
    /\ ChartIdle
    /\ pc = "mounted"

\* parseCSV(fileContent) on behalf of the file named name
ApplyParse(name, outcome) ==
    /\ dashHeaders' = IF outcome.set THEN outcome.headers ELSE dashHeaders
    /\ csvData' = IF outcome.set THEN outcome.data ELSE csvData
    /\ dashIsMultiMetric' =
          IF outcome.set THEN outcome.isMultiMetric ELSE dashIsMultiMetric
    /\ shownFile' = IF outcome.set THEN name ELSE shownFile
    /\ loggedOut' = outcome.logout

\* handleFileUpload(file); upload and refresh are what POST /upload-csv and
\* GET /upload-history come to, outcome is what parseCSV(fileContent) does
HandleFileUpload(file, outcome) ==
    \E upload \in Answers, refresh \in {"ok", "failed"}, history \in Histories :
        /\ ~loggedOut
        /\ handledFile' = file.name
        /\ IF upload = "unauthorized"
           THEN /\ toasts' = {SessionExpired}
                /\ loggedOut' = TRUE
                /\ UNCHANGED <<dashHeaders, csvData, dashIsMultiMetric,
                               currentFileName, uploadHistory, activeTab,
                               shownFile>>
           ELSE IF upload = "failed" /\ file.content = <<>>
           THEN \* FileReader: an empty result rejects
                /\ toasts' = {ProcessingLocally, FailedToProcess}
                /\ UNCHANGED <<dashboardState, shownFile>>
           ELSE     /\ currentFileName' = file.name
                    /\ ApplyParse(file.name, outcome)
                    /\ uploadHistory' =
                          IF upload = "ok" /\ refresh = "ok"
                          THEN history ELSE uploadHistory
                    /\ activeTab' = "dashboard"
                    /\ toasts' =
                          (IF upload = "ok" THEN {UploadedSuccessfully}
                           ELSE {ProcessingLocally, LoadedSuccessfully})
                            \cup outcome.toasts
        /\ UNCHANGED <<parserVars, headerVars, lineVars, categoryVars, chartVars, serverVars, pc>>

\* handleLoadFile(uploadId) for an upload listed in the history; load is
\* what GET /upload/:uploadId comes to, outcome is what
\* parseCSV(result.fileContent) does
HandleLoadFile(file, outcome) ==
    \E load \in Answers :
        /\ ~loggedOut
        /\ \E n \in 1..Len(uploadHistory) : uploadHistory[n] = file.name
        /\ handledFile' = file.name
        /\ IF load = "unauthorized"
           THEN /\ toasts' = {SessionExpired}
                /\ loggedOut' = TRUE
                /\ UNCHANGED <<dashHeaders, csvData, dashIsMultiMetric,
                               currentFileName, activeTab, shownFile>>
           ELSE IF load = "failed"
           THEN /\ toasts' = {FailedToLoad}
                /\ UNCHANGED <<dashHeaders, csvData, dashIsMultiMetric,
                               currentFileName, activeTab, loggedOut, shownFile>>
           ELSE     /\ currentFileName' = file.name
                    /\ ApplyParse(file.name, outcome)
                    /\ activeTab' = "dashboard"
                    /\ toasts' = {FileLoadedSuccessfully} \cup outcome.toasts
        /\ UNCHANGED <<uploadHistory, parserVars, headerVars, lineVars,
                       categoryVars, chartVars, serverVars, pc>>

\* fetchUploadHistory(), from the refresh and retry buttons
FetchUploadHistory ==
    \E refresh \in {"ok", "failed"}, history \in Histories :
        /\ ~loggedOut
        /\ uploadHistory' = IF refresh = "ok" THEN history ELSE uploadHistory
        /\ UNCHANGED <<dashHeaders, csvData, dashIsMultiMetric, currentFileName,
                       activeTab, loggedOut, toasts, handledFile, shownFile,
                       parserVars, headerVars, lineVars, categoryVars, chartVars, serverVars, pc>>

\* setActiveTab(id), from the sidebar and the keyboard shortcuts
SetActiveTab ==
    \E tab \in Tabs :
        /\ ~loggedOut
        /\ activeTab' = tab
        /\ UNCHANGED <<dashHeaders, csvData, dashIsMultiMetric, currentFileName,
                       uploadHistory, loggedOut, toasts, handledFile, shownFile,
                       parserVars, headerVars, lineVars, categoryVars, chartVars, serverVars, pc>>

\* parse is what POST /parse-csv comes to when a handler's parseCSV falls
\* back on it
NextDashboard ==
    \/ \E file \in Files, parse \in Answers :
          \E outcome \in {dashboardParseCSV(file.content, parse)} :
              \/ HandleFileUpload(file, outcome)
              \/ HandleLoadFile(file, outcome)
    \/ FetchUploadHistory
    \/ SetActiveTab

SpecDashboard == InitDashboard /\ [][NextDashboard]_vars

(***************************************************************************)
(* SpecControls: the controls of the chart component, from its mount with   *)
(* the default selections, over a data set of five columns: T, and the      *)
(* four numeric columns V1 to V4.                                           *)
(***************************************************************************)
V3 == <<"V", "3">>
V4 == <<"V", "4">>

\* headers.filter(header => data.some(row => typeof row[header] === 'number'))
RECURSIVE numericHeaders(_, _)
numericHeaders(headers, data) ==
    IF headers = <<>> THEN <<>>
    ELSE (IF \E i \in 1..Len(data) : Get(data[i], Head(headers)).t = "number"
          THEN <<Head(headers)>> ELSE <<>>)
         \o numericHeaders(Tail(headers), data)

\* the test of headers.find in defaultXAxis
isTimeColumn(h, headers, data, offset) ==
    \/ includesText(toLowerCase(h), <<"t", "i", "m", "e">>)
    \/ includesText(toLowerCase(h), <<"t", "i", "m", "e", "s", "t", "a", "m", "p">>)
    \/ isDateAxis(headers, data, h, offset)

\* timeColumn || headers[0] || ''
defaultXAxis(headers, data, offset) ==
    IF \E i \in 1..Len(headers) : isTimeColumn(headers[i], headers, data, offset)
    THEN headers[CHOOSE i \in 1..Len(headers) :
                    /\ isTimeColumn(headers[i], headers, data, offset)
                    /\ \A j \in 1..(i - 1) :
                          ~isTimeColumn(headers[j], headers, data, offset)]
    ELSE IF headers # <<>> THEN headers[1] ELSE <<>>

isVoltageColumn(h) ==
    includesText(toLowerCase(h), <<"v", "o", "l", "t", "a", "g", "e">>)

\* voltageColumn || numericHeaders[0] || headers[1] || ''
defaultYAxis(headers, data) ==
    LET numeric == numericHeaders(headers, data)
    IN  IF \E i \in 1..Len(numeric) : isVoltageColumn(numeric[i])
        THEN numeric[CHOOSE i \in 1..Len(numeric) :
                        /\ isVoltageColumn(numeric[i])
                        /\ \A j \in 1..(i - 1) : ~isVoltageColumn(numeric[j])]
        ELSE IF numeric # <<>> THEN numeric[1]
        ELSE IF Len(headers) >= 2 THEN headers[2] ELSE <<>>

\* the number of numeric columns selected at the mount
DefaultSeries == 3

\* numericHeaders.slice(0, 3)
defaultYAxes(headers, data) ==
    SubSeq(numericHeaders(headers, data), 1,
           Min(DefaultSeries, Len(numericHeaders(headers, data))))

\* the number of metrics above which toggleYAxis adds no more
MaxSelectedMetrics == 8

\* prev.filter(a => a !== axis)
RECURSIVE without(_, _)
without(prev, axis) ==
    IF prev = <<>> THEN <<>>
    ELSE (IF Head(prev) # axis THEN <<Head(prev)>> ELSE <<>>)
         \o without(Tail(prev), axis)

\* the updater of setSelectedYAxes in toggleYAxis
toggleYAxis(prev, axis) ==
    IF \E i \in 1..Len(prev) : prev[i] = axis
    THEN IF Len(prev) = 1 THEN prev ELSE without(prev, axis)
    ELSE IF Len(prev) >= MaxSelectedMetrics THEN prev ELSE Append(prev, axis)

\* the intervals of the Ctrl+T handler
intervals == <<"none", "days", "weeks", "months">>

\* intervals[(intervals.indexOf(timeGrouping) + 1) % intervals.length]
nextInterval(current) ==
    LET currentIndex == CHOOSE i \in 1..Len(intervals) : intervals[i] = current
    IN  intervals[(currentIndex % Len(intervals)) + 1]

ControlHeaders == <<T, V1, V2, V3, V4>>

\* two rows of the five columns with the given values of T
ControlData(t1, t2) ==
    [k \in 1..2 |->
        [h \in {T, V1, V2, V3, V4} |->
            IF h = T THEN (IF k = 1 THEN t1 ELSE t2) ELSE Number(10 * k, 0)]]

\* T is a date column in the first data set and a numeric column in the second
ControlDataSets ==
    {ControlData(Str(Mon29Dec2025), Str(Thu01Jan2026)),
     ControlData(Number(1, 0), Number(2, 0))}

InitControls ==
    /\ chartData \in ControlDataSets
    /\ chartHeaders = ControlHeaders
    /\ timezoneOffset \in TimezoneOffsets
    /\ xAxis = defaultXAxis(chartHeaders, chartData, timezoneOffset)
    /\ yAxis = defaultYAxis(chartHeaders, chartData)
    /\ selectedYAxes = defaultYAxes(chartHeaders, chartData)
    /\ viewMode = "single"
    /\ timeGrouping = "none"
    /\ aggregationMethod = "average"
    /\ processedData = <<>>
    /\ ParserIdle
    /\ HeadersIdle
    /\ LineIdle
    /\ CategoryIdle
    /\ AppIdle
    /\ pc = "mounted"

\* the checkbox of a metric in the multi view: toggleYAxis(metric)
ToggleYAxis ==
    \E k \in 1..Len(numericHeaders(chartHeaders, chartData)) :
        /\ pc = "mounted"
        /\ viewMode = "multi"
        /\ selectedYAxes' =
              toggleYAxis(selectedYAxes, numericHeaders(chartHeaders, chartData)[k])
        /\ UNCHANGED <<xAxis, yAxis, viewMode, timeGrouping, aggregationMethod,
                       chartProps, processedData, parserVars, headerVars, lineVars,
                       categoryVars, appVars, pc>>

\* the Tabs of the view mode: setViewMode(value)
SetViewMode ==
    \E value \in {"single", "multi"} :
        /\ pc = "mounted"
        /\ viewMode' = value
        /\ UNCHANGED <<xAxis, yAxis, selectedYAxes, timeGrouping,
                       aggregationMethod, chartProps, processedData, parserVars,
                       headerVars, lineVars, categoryVars, appVars, pc>>

\* the Select of the X axis: setXAxis(header)
SetXAxis ==
    \E k \in 1..Len(chartHeaders) :
        /\ pc = "mounted"
        /\ xAxis' = chartHeaders[k]
        /\ UNCHANGED <<yAxis, selectedYAxes, viewMode, timeGrouping,
                       aggregationMethod, chartProps, processedData, parserVars,
                       headerVars, lineVars, categoryVars, appVars, pc>>

\* onChange of the TimeIntervalSelector
SelectTimeInterval ==
    \E value \in {"none", "days", "weeks", "months"} :
        /\ pc = "mounted"
        /\ timeGrouping' =
              IF /\ ~isDateAxis(chartHeaders, chartData, xAxis, timezoneOffset)
                 /\ value # "none"
              THEN timeGrouping
              ELSE value
        /\ UNCHANGED <<xAxis, yAxis, selectedYAxes, viewMode, aggregationMethod,
                       chartProps, processedData, parserVars, headerVars, lineVars,
                       categoryVars, appVars, pc>>

\* the keydown handler on Ctrl+T
PressCtrlT ==
    /\ pc = "mounted"
    /\ timeGrouping' =
          IF ~isDateAxis(chartHeaders, chartData, xAxis, timezoneOffset)
          THEN timeGrouping
          ELSE nextInterval(timeGrouping)
    /\ UNCHANGED <<xAxis, yAxis, selectedYAxes, viewMode, aggregationMethod,
                   chartProps, processedData, parserVars, headerVars, lineVars,
                   categoryVars, appVars, pc>>

NextControls ==
    \/ PressCtrlT
    \/ SelectTimeInterval
    \/ SetXAxis
    \/ SetViewMode
    \/ ToggleYAxis

SpecControls == InitControls /\ [][NextControls]_vars

(***************************************************************************)
(* SpecServer: POST /upload-csv requests of one user, handled by the        *)
(* server concurrently: a request gives way to the others at each of its    *)
(* awaits.  A request's position is the await it is waiting at.             *)
(***************************************************************************)
\* the number of entries the history keeps
HistoryLimit == 20

\* everything but the server
clientVars ==
    <<parserVars, headerVars, lineVars, categoryVars, chartVars, dashboardVars, pc>>

UploadNames == {"a.csv", "b.csv"}

UserId == "u"

\* `upload_${user.id}_${timestamp}`
uploadIdOf(timestamp) == <<"upload", UserId, timestamp>>

\* `${user.id}/${timestamp}_${fileName || file.name}`
uniqueFileNameOf(timestamp, fileName) == <<UserId, timestamp, fileName>>

\* uploadMetadata
uploadMetadataOf(timestamp, fileName, now) ==
    [id |-> uploadIdOf(timestamp),
     userId |-> UserId,
     fileName |-> fileName,
     storagePath |-> uniqueFileNameOf(timestamp, fileName),
     uploadedAt |-> now]

\* [uploadMetadata, ...existingHistory].slice(0, 20)
updatedHistoryOf(uploadMetadata, existingHistory) ==
    SubSeq(<<uploadMetadata>> \o existingHistory, 1,
           Min(HistoryLimit, 1 + Len(existingHistory)))

NoMetadata == [id |-> <<>>, userId |-> "", fileName |-> "", storagePath |-> <<>>,
               uploadedAt |-> 0]

\* a request as it arrives, carrying a token and a file or not
NewRequest(fileName, hasToken, hasFile) ==
    [at |-> "getUser", fileName |-> fileName, hasToken |-> hasToken,
     hasFile |-> hasFile, timestamp |-> 0, uploadMetadata |-> NoMetadata,
     existingHistory |-> <<>>, status |-> 0]

\* the entry of an upload made before the requests, the k-th newest of them
OldUpload(k) == uploadMetadataOf(0 - k, "a.csv", 0 - k)

\* the history is empty, or one entry short of full
InitialHistories == {<<>>, [k \in 1..(HistoryLimit - 1) |-> OldUpload(k)]}

InitServer ==
    /\ kvUploads = <<>>
    /\ kvHistory \in InitialHistories
    /\ storage = {}
    /\ requests = <<>>
    /\ clock = 0
    /\ ParserIdle
    /\ HeadersIdle
    /\ LineIdle
    /\ CategoryIdle
    /\ ChartIdle
    /\ DashboardIdle
    /\ pc = "serving"

\* the request r answers with the given status
Answer(r, status) ==
    requests' = [requests EXCEPT ![r].at = "answered", ![r].status = status]

\* a request arrives; without a token it is answered 401 at once
Receive ==
    \E fileName \in UploadNames, hasToken \in BOOLEAN, hasFile \in BOOLEAN :
        /\ Len(requests) < MaxUploads
        /\ requests' =
              Append(requests,
                     IF hasToken
                     THEN NewRequest(fileName, hasToken, hasFile)
                     ELSE [NewRequest(fileName, hasToken, hasFile)
                               EXCEPT !.at = "answered", !.status = 401])
        /\ UNCHANGED <<kvUploads, kvHistory, storage, clock, clientVars>>

\* await adminSupabase.auth.getUser(accessToken) returns, the token valid or not
GetUser(r) ==
    /\ requests[r].at = "getUser"
    /\ \E valid \in BOOLEAN :
          IF valid
          THEN requests' = [requests EXCEPT ![r].at = "parseBody"]
          ELSE Answer(r, 401)
    /\ UNCHANGED <<kvUploads, kvHistory, storage, clock, clientVars>>

\* await c.req.parseBody() returns: without a file the answer is 400, with
\* one the timestamp is read and the upload to the storage starts
ParseBody(r) ==
    /\ requests[r].at = "parseBody"
    /\ IF ~requests[r].hasFile
       THEN Answer(r, 400)
       ELSE requests' = [requests EXCEPT ![r].at = "upload", ![r].timestamp = clock]
    /\ UNCHANGED <<kvUploads, kvHistory, storage, clock, clientVars>>

\* await storage.upload(uniqueFileName, ..., {upsert: false}) returns: an
\* existing path is an error, and the storage can fail
StorageUpload(r) ==
    /\ requests[r].at = "upload"
    /\ LET uniqueFileName ==
               uniqueFileNameOf(requests[r].timestamp, requests[r].fileName)
       IN  \E fails \in BOOLEAN :
               IF fails \/ uniqueFileName \in storage
               THEN /\ Answer(r, 500)
                    /\ UNCHANGED storage
               ELSE /\ storage' = storage \cup {uniqueFileName}
                    /\ requests' = [requests EXCEPT ![r].at = "text"]
    /\ UNCHANGED <<kvUploads, kvHistory, clock, clientVars>>

\* await file.text() returns: the metadata is built and kv.set(uploadId,
\* uploadMetadata) is called
SetUpload(r) ==
    /\ requests[r].at = "text"
    /\ LET uploadMetadata ==
               uploadMetadataOf(requests[r].timestamp, requests[r].fileName, clock)
       IN  /\ kvUploads' = (uploadMetadata.id :> uploadMetadata) @@ kvUploads
           /\ requests' = [requests EXCEPT ![r].at = "kv.set(uploadId)",
                                           ![r].uploadMetadata = uploadMetadata]
    /\ UNCHANGED <<kvHistory, storage, clock, clientVars>>

\* await kv.set(uploadId, ...) returns and kv.get(historyKey) reads the history
GetHistory(r) ==
    /\ requests[r].at = "kv.set(uploadId)"
    /\ requests' = [requests EXCEPT ![r].at = "kv.get(historyKey)",
                                    ![r].existingHistory = kvHistory]
    /\ UNCHANGED <<kvUploads, kvHistory, storage, clock, clientVars>>

\* await kv.get(historyKey) returns and kv.set(historyKey, updatedHistory)
\* writes the history
SetHistory(r) ==
    /\ requests[r].at = "kv.get(historyKey)"
    /\ kvHistory' =
          updatedHistoryOf(requests[r].uploadMetadata, requests[r].existingHistory)
    /\ requests' = [requests EXCEPT ![r].at = "kv.set(historyKey)"]
    /\ UNCHANGED <<kvUploads, storage, clock, clientVars>>

\* await kv.set(historyKey, ...) returns: the answer is { success: true, ... }
Respond(r) ==
    /\ requests[r].at = "kv.set(historyKey)"
    /\ Answer(r, 200)
    /\ UNCHANGED <<kvUploads, kvHistory, storage, clock, clientVars>>

\* a millisecond passes
Tick ==
    /\ clock < MaxClock
    /\ clock' = clock + 1
    /\ UNCHANGED <<kvUploads, kvHistory, storage, requests, clientVars>>

NextServer ==
    \/ Receive
    \/ \E r \in 1..Len(requests) : GetUser(r)
    \/ \E r \in 1..Len(requests) : ParseBody(r)
    \/ \E r \in 1..Len(requests) : StorageUpload(r)
    \/ \E r \in 1..Len(requests) : SetUpload(r)
    \/ \E r \in 1..Len(requests) : GetHistory(r)
    \/ \E r \in 1..Len(requests) : SetHistory(r)
    \/ \E r \in 1..Len(requests) : Respond(r)
    \/ Tick

SpecServer == InitServer /\ [][NextServer]_vars

(***************************************************************************)
(* Vocabulary of the properties, stated on the input text itself.           *)
(***************************************************************************)
IsBlank(line) == \A i \in 1..Len(line) : line[i] \in WhiteSpace

NotBlank(line) == ~IsBlank(line)

\* the non-empty lines of a text, in order
NonEmptyLines(text) == SelectSeq(split(text, "\n"), NotBlank)

\* the first comma-delimited cell of a line
FirstCell(line) == split(line, ",")[1]

Returned == pc = "done" /\ parsed.status = "ok"

Raised == pc = "done" /\ parsed.status = "error"

Distinct(seq) == \A i, j \in 1..Len(seq) : i # j => seq[i] # seq[j]

\* the data lines behind the rows of a standard parse, one per row
StandardDataLines == Tail(split(trim(csvText), "\n"))

\* the data lines behind the rows of a compound parse, one per row
CompoundDataLines == SelectSeq(Tail(split(trim(csvText), "\n")), NotBlank)

\* C1: with at least two non-empty lines, the parse is compound and
\* multi-metric exactly when the first comma-delimited cell of each of the
\* first two non-empty lines holds a semicolon, and standard otherwise.
C1_DetectsOnFirstTwoNonEmptyLines ==
    (pc = "done" /\ Len(NonEmptyLines(csvText)) >= 2) =>
        LET nel  == NonEmptyLines(csvText)
            both == includes(FirstCell(nel[1]), ";") /\ includes(FirstCell(nel[2]), ";")
        IN  IF both
            THEN parsed.originalFormat = "compound" /\ parsed.isMultiMetric
            ELSE parsed.originalFormat = "standard" /\ ~parsed.isMultiMetric

TIME == <<"T", "I", "M", "E">>
ScenarioTimestamp ==
    <<"2", "0", "2", "5", "-", "0", "1", "-", "0", "1", " ", "0", "0", ":", "0",
      "0", ":", "0", "0">>

\* C2: a text whose first line's first cell holds a semicolon (header
\* 'TIME;V1;V2', data 'timestamp,v1;v2') parses as compound and multi-metric,
\* and the documented scenario yields headers TIME, V1, V2 and the one row
\* TIME -> the timestamp string, V1 -> 10, V2 -> 20.
C2_CompoundLayoutParsesAsCompound ==
    (pc = "done" /\ Len(NonEmptyLines(csvText)) >= 2
       /\ includes(FirstCell(NonEmptyLines(csvText)[1]), ";")) =>
        /\ parsed.isMultiMetric
        /\ parsed.originalFormat = "compound"
        /\ csvText = CompoundScenarioText =>
              /\ parsed.headers = <<TIME, V1, V2>>
              /\ Len(parsed.data) = 1
              /\ DOMAIN parsed.data[1] = {TIME, V1, V2}
              /\ parsed.data[1][TIME] = Str(ScenarioTimestamp)
              /\ parsed.data[1][V1] = Number(10, 0)
              /\ parsed.data[1][V2] = Number(20, 0)

\* C3: parseCSV raises exactly when the text has fewer than two non-empty
\* lines (an empty or white-space-only text has none); with two or more it
\* returns a result, whatever the quoting, the ragged rows or the cells.
C3_RaisesIffFewerThanTwoLines ==
    pc = "done" =>
        /\ parsed.status \in {"ok", "error"}
        /\ parsed.status = "error" <=> Len(NonEmptyLines(csvText)) < 2

\* a returned parse of a text with a quote, a row shorter than the header
\* list and a cell that is no number
C3_Witness ==
    /\ Returned
    /\ includes(csvText, "\"")
    /\ \E k \in 1..Len(parsed.data) :
          /\ KeyCount(parsed.data[k]) < Len(parsed.headers)
          /\ \E h \in DOMAIN parsed.data[k] : parsed.data[k][h].t = "string"

StandardParse == Returned /\ parsed.originalFormat = "standard"

CompoundParse == Returned /\ parsed.originalFormat = "compound"

\* C27: a standard parse returns as many rows as the text has non-empty
\* lines after its header line: a blank or white-space-only line between
\* data lines produces no row.
C27_OneRowPerNonEmptyDataLine ==
    StandardParse => Len(parsed.data) = Len(NonEmptyLines(csvText)) - 1

\* C4 as stated: in a standard parse every row has an entry for every
\* header, and a header beyond the cells of the data line maps to ''.
C4_EveryRowHasEveryHeader ==
    StandardParse =>
        /\ Len(parsed.data) = Len(StandardDataLines)
        /\ \A k \in 1..Len(parsed.data) :
             \A i \in 1..Len(parsed.headers) :
                /\ parsed.headers[i] \in DOMAIN parsed.data[k]
                /\ (\A j \in 1..Len(parseCSVLine(StandardDataLines[k])) :
                        parsed.headers[j] # parsed.headers[i])
                     => parsed.data[k][parsed.headers[i]] = Str(<<>>)

\* C4 as amended: in a standard parse the keys of a row are exactly the
\* headers at the positions its data line has cells for; a header beyond
\* them is omitted from the row.
C4_RowHasTheHeadersOfItsCells ==
    StandardParse =>
        /\ Len(parsed.data) = Len(StandardDataLines)
        /\ \A k \in 1..Len(parsed.data) :
             LET n == Min(Len(parsed.headers),
                          Len(parseCSVLine(StandardDataLines[k])))
             IN  DOMAIN parsed.data[k] = {parsed.headers[i] : i \in 1..n}

\* a standard parse with a data line shorter than the header list, whose row
\* lacks the trailing header
C4_Witness ==
    /\ StandardParse
    /\ \E k \in 1..Len(parsed.data) :
          /\ Len(parseCSVLine(StandardDataLines[k])) < Len(parsed.headers)
          /\ parsed.headers[Len(parsed.headers)] \notin DOMAIN parsed.data[k]

\* C5: the returned headers, in either format, hold no two equal names.
C5_HeadersAreDistinct ==
    Returned => Distinct(parsed.headers)

(***************************************************************************)
(* "Parses as a finite decimal number", as a whole text:                    *)
(* [+-]? ( digits+ ( . digits* )? | . digits+ ), nothing before or after.   *)
(***************************************************************************)
IsWholeDecimal(s) ==
    LET body == IF s # <<>> /\ s[1] \in {"+", "-"} THEN Tail(s) ELSE s
        dots == {i \in 1..Len(body) : body[i] = "."}
    IN  /\ \A i \in 1..Len(body) : body[i] \in Digit \cup {"."}
        /\ Cardinality(dots) <= 1
        /\ \E i \in 1..Len(body) : body[i] \in Digit

\* what the coercion rule gives a cell text
Typed(s) == IF IsWholeDecimal(s) THEN parseFloat(s) ELSE Str(s)

\* the sub-values of a compound data line: each cell split on ';' or whole
RECURSIVE SubValuesOf(_)
SubValuesOf(cells) ==
    IF cells = <<>> THEN <<>>
    ELSE (IF includes(Head(cells), ";")
          THEN trimAll(split(Head(cells), ";"))
          ELSE <<trim(Head(cells))>>)
         \o SubValuesOf(Tail(cells))

SubValues(line) == SubValuesOf(parseCSVLine(line))

HasDateSeparator(s) == \E i \in 1..Len(s) : s[i] \in {"/", ":", "-"}

\* C9: in both parsers a cell's value is a number exactly when its whole
\* trimmed text is a finite decimal number, and is then that number;
\* otherwise it is the trimmed text itself (first compound column apart).
C9_NumberIffWholeTextIsDecimal ==
    /\ (StandardParse /\ Distinct(parsed.headers)) =>
          \A k \in 1..Min(Len(parsed.data), Len(StandardDataLines)) :
             LET cells == parseCSVLine(StandardDataLines[k])
             IN  \A i \in 1..Min(Len(parsed.headers), Len(cells)) :
                    /\ parsed.headers[i] \in DOMAIN parsed.data[k]
                    /\ parsed.data[k][parsed.headers[i]] = Typed(cells[i])
    /\ (CompoundParse /\ Distinct(parsed.headers)) =>
          \A k \in 1..Min(Len(parsed.data), Len(CompoundDataLines)) :
             LET values == SubValues(CompoundDataLines[k])
             IN  \A i \in 2..Min(Len(parsed.headers), Len(values)) :
                    /\ parsed.headers[i] \in DOMAIN parsed.data[k]
                    /\ parsed.data[k][parsed.headers[i]] = Typed(values[i])

\* C10: in a compound parse the first column of a row keeps its text as a
\* string whenever that text holds '/', ':' or '-', as a comma-cell of its
\* own or as the first sub-value of a cell.
C10_FirstColumnDateIsKeptAsString ==
    (CompoundParse /\ Distinct(parsed.headers)) =>
        \A k \in 1..Min(Len(parsed.data), Len(CompoundDataLines)) :
           LET first == SubValues(CompoundDataLines[k])[1]
           IN  HasDateSeparator(first) =>
                  /\ parsed.headers[1] \in DOMAIN parsed.data[k]
                  /\ parsed.data[k][parsed.headers[1]] = Str(first)

A == <<"A">>
B == <<"B">>

\* C11: in a compound parse the j-th sub-value of a data row, counted left
\* to right across its cells, is stored under the j-th header; sub-values
\* beyond the headers are dropped, and a header beyond the sub-values has
\* no entry in the row.
C11_SubValuesFillHeadersInOrder ==
    CompoundParse =>
        /\ Len(parsed.data) = Len(CompoundDataLines)
        /\ \A k \in 1..Len(parsed.data) :
             LET values == SubValues(CompoundDataLines[k])
                 n      == Min(Len(parsed.headers), Len(values))
                 row    == parsed.data[k]
             IN  /\ DOMAIN row = {parsed.headers[j] : j \in 1..n}
                 /\ \A j \in 1..n :
                       (\A i \in (j + 1)..n : parsed.headers[i] # parsed.headers[j])
                          => row[parsed.headers[j]]
                                \in {Str(values[j]), coerce(values[j])}

\* 'T;A;B' over '1;2;3;4' and '5;6': the first row dropped the 4, the
\* second row has no B
C11_Witness ==
    /\ CompoundParse
    /\ csvText = RaggedCompoundText
    /\ parsed.headers = <<T, A, B>>
    /\ Len(parsed.data) = 2
    /\ DOMAIN parsed.data[1] = {T, A, B}
    /\ parsed.data[1][T] = Number(1, 0)
    /\ parsed.data[1][A] = Number(2, 0)
    /\ parsed.data[1][B] = Number(3, 0)
    /\ DOMAIN parsed.data[2] = {T, A}
    /\ parsed.data[2][T] = Number(5, 0)
    /\ parsed.data[2][A] = Number(6, 0)

\* C12: in a standard parse the header list is what the line tokenizer
\* returns for the first line, so there are as many headers as the
\* tokenizer finds cells there and a comma inside a quoted header adds none.
C12_HeadersAreTokenizedFirstLine ==
    StandardParse =>
        /\ Len(parsed.headers) = Len(parseCSVLine(split(trim(csvText), "\n")[1]))
        /\ parsed.headers = parseCSVLine(split(trim(csvText), "\n")[1])

(***************************************************************************)
(* The line tokenizer, under SpecLine.                                      *)
(***************************************************************************)
\* the quoted state at position i: an odd number of quotes came before it
InQuotedState(text, i) ==
    Cardinality({j \in 1..(i - 1) : text[j] = "\""}) % 2 = 1

\* the commas met outside the quoted state
SeparatorCommas(text) ==
    {i \in 1..Len(text) : text[i] = "," /\ ~InQuotedState(text, i)}

\* the characters of text at the positions of S, in order
Restrict(text, S) ==
    [n \in 1..Cardinality(S) |->
        text[CHOOSE i \in S : Cardinality({j \in S : j <= i}) = n]]

\* the content of the k-th cell: what lies after k - 1 separators and
\* before the k-th, quotes left out
CellContent(text, k) ==
    Restrict(text,
             {i \in 1..Len(text) :
                 /\ text[i] # "\""
                 /\ i \notin SeparatorCommas(text)
                 /\ Cardinality({j \in SeparatorCommas(text) : j < i}) = k - 1})

\* C13: parseCSVLine returns, for any line, exactly one cell more than
\* there are commas met outside the quoted state, the quoted state being
\* toggled by every double quote; a comma met in the quoted state stays in
\* its cell as content.
C13_OneCellMoreThanSeparators ==
    pc = "done" =>
        /\ Len(lineCells) = 1 + Cardinality(SeparatorCommas(lineText))
        /\ \A k \in 1..Len(lineCells) :
              lineCells[k] = trim(CellContent(lineText, k))

\* 'a,",a' with its unclosed quote gave the two cells 'a' and ',a'
C13_Witness ==
    /\ pc = "done"
    /\ lineText = <<"a", ",", "\"", ",", "a">>
    /\ lineCells = << <<"a">>, <<",", "a">> >>

(***************************************************************************)
(* The metric categorizers, under SpecCategory.                             *)
(***************************************************************************)
\* header holds word, letter case set aside
Mentions(header, word) ==
    includesText(toLowerCase(header), toLowerCase(word))

\* the first category of order whose rule matches
FirstMatch(order, matches) ==
    order[CHOOSE i \in 1..Len(order) :
              matches[i] /\ \A j \in 1..(i - 1) : ~matches[j]]

\* the categories under which groups lists header
CategoriesOf(groups, header) ==
    {groups[i].category : i \in {j \in 1..Len(groups) :
        \E n \in 1..Len(groups[j].headers) : groups[j].headers[n] = header}}

\* how many times groups lists header
ListingsOf(groups, header) ==
    Cardinality({<<i, n>> \in (1..Len(groups)) \X (1..Len(categoryHeaders)) :
                    n <= Len(groups[i].headers) /\ groups[i].headers[n] = header})

StatedOrder ==
    <<"Voltage", "Power Factor", "Current", "Power", "Frequency", "Time", "Other">>

StatedMatches(h) ==
    <<Mentions(h, <<"V", "o", "l", "t", "a", "g", "e">>),
      Mentions(h, <<"P", "F">>) \/ Mentions(h, <<"P", "o", "w", "e", "r", " ", "F", "a", "c", "t", "o", "r">>),
      Mentions(h, <<"C", "u", "r", "r", "e", "n", "t">>),
      Mentions(h, <<"P", "o", "w", "e", "r">>)
         /\ ~Mentions(h, <<"F", "a", "c", "t", "o", "r">>),
      Mentions(h, <<"F", "r", "e", "q", "u", "e", "n", "c", "y">>),
      Mentions(h, <<"T", "i", "m", "e">>) \/ Mentions(h, <<"t", "i", "m", "e", "s", "t", "a", "m", "p">>),
      TRUE>>

\* C14 as stated: the chart lists every header under exactly one category,
\* the first that matches in the order Voltage, Power Factor, Current,
\* Power, Frequency, Time, Other; a header matching both Frequency and Time
\* is under Frequency.
C14_FirstMatchInStatedOrder ==
    chartGroups # NoGroups =>
        \A i \in 1..Len(categoryHeaders) :
           CategoriesOf(chartGroups, categoryHeaders[i])
              = {FirstMatch(StatedOrder, StatedMatches(categoryHeaders[i]))}

ChartOrder ==
    <<"Voltage", "Power Factor", "Current", "Power", "Time", "Frequency", "Other">>

ChartMatches(h) ==
    <<Mentions(h, <<"V", "o", "l", "t", "a", "g", "e">>),
      Mentions(h, <<"P", "F">>) \/ Mentions(h, <<"P", "o", "w", "e", "r", " ", "F", "a", "c", "t", "o", "r">>),
      Mentions(h, <<"C", "u", "r", "r", "e", "n", "t">>),
      Mentions(h, <<"P", "o", "w", "e", "r">>) /\ ~Mentions(h, <<"F", "a", "c", "t", "o", "r">>),
      Mentions(h, <<"T", "i", "m", "e">>),
      Mentions(h, <<"F", "r", "e", "q", "u", "e", "n", "c", "y">>),
      TRUE>>

ParserOrder ==
    <<"Voltage", "Power Factor", "Current", "Power", "Time", "Other">>

ParserMatches(h) ==
    <<includesText(h, <<"V", "o", "l", "t", "a", "g", "e">>),
      includesText(h, <<"P", "F">>) \/ includesText(h, <<"P", "o", "w", "e", "r", " ", "F", "a", "c", "t", "o", "r">>),
      includesText(h, <<"C", "u", "r", "r", "e", "n", "t">>),
      includesText(h, <<"P", "o", "w", "e", "r">>),
      includesText(h, <<"T", "I", "M", "E">>) \/ includesText(h, <<"T", "i", "m", "e">>),
      TRUE>>

\* C14 as amended: the chart lists every header once, under the first
\* category that matches, letter case set aside, in the order Voltage,
\* Power Factor, Current, Power (a name with 'power' and without 'factor'),
\* Time, Frequency, Other, so a header matching both Frequency and Time is
\* under Time; groupMetricsByCategory does the same by exact-case matching
\* in the order Voltage, Power Factor, Current, Power, Time, Other and has
\* no Frequency category.
C14_FirstMatchInCodeOrder ==
    /\ chartGroups # NoGroups =>
          \A i \in 1..Len(categoryHeaders) :
             /\ CategoriesOf(chartGroups, categoryHeaders[i])
                   = {FirstMatch(ChartOrder, ChartMatches(categoryHeaders[i]))}
             /\ ListingsOf(chartGroups, categoryHeaders[i])
                   = Cardinality({j \in 1..Len(categoryHeaders) :
                                     categoryHeaders[j] = categoryHeaders[i]})
    /\ parserGroups # NoGroups =>
          \A i \in 1..Len(categoryHeaders) :
             /\ CategoriesOf(parserGroups, categoryHeaders[i])
                   = {FirstMatch(ParserOrder, ParserMatches(categoryHeaders[i]))}
             /\ ListingsOf(parserGroups, categoryHeaders[i])
                   = Cardinality({j \in 1..Len(categoryHeaders) :
                                     categoryHeaders[j] = categoryHeaders[i]})

\* of 'R Voltage', 'Frequency', 'TIME', 'Y Voltage', 'Frequency Time' the
\* chart put 'Frequency' under Frequency and 'Frequency Time' under Time;
\* groupMetricsByCategory put 'Frequency' under Other
C14_Witness ==
    /\ pc = "done"
    /\ categoryHeaders = MixedHeaderList
    /\ chartGroups =
          <<[category |-> "Voltage", headers |-> <<<<"R", " ", "V", "o", "l", "t", "a", "g", "e">>, <<"Y", " ", "V", "o", "l", "t", "a", "g", "e">>>>],
            [category |-> "Frequency", headers |-> <<<<"F", "r", "e", "q", "u", "e", "n", "c", "y">>>>],
            [category |-> "Time", headers |-> <<<<"T", "I", "M", "E">>, <<"F", "r", "e", "q", "u", "e", "n", "c", "y", " ", "T", "i", "m", "e">>>>]>>
    /\ parserGroups =
          <<[category |-> "Voltage", headers |-> <<<<"R", " ", "V", "o", "l", "t", "a", "g", "e">>, <<"Y", " ", "V", "o", "l", "t", "a", "g", "e">>>>],
            [category |-> "Other", headers |-> <<<<"F", "r", "e", "q", "u", "e", "n", "c", "y">>>>],
            [category |-> "Time", headers |-> <<<<"T", "I", "M", "E">>, <<"F", "r", "e", "q", "u", "e", "n", "c", "y", " ", "T", "i", "m", "e">>>>]>>

(***************************************************************************)
(* The chart's processedData, under SpecChart.                              *)
(***************************************************************************)
Rendered == pc = "done" /\ chartHeaders # <<>>

\* the X-axis column is one of the detected date columns
DateAxis == isDateAxis(chartHeaders, chartData, xAxis, timezoneOffset)

\* the rows are bucketed: a grouping is chosen and the X axis is a date column
Bucketed == Rendered /\ timeGrouping # "none" /\ DateAxis

TimeValue(i) == Get(chartData[i], xAxis)

DateTexts == {Mon29Dec2025, Thu01Jan2026, Mon05Jan2026, Thu02Jan2025}

\* the value parses as a valid date: one of the date texts, or a number
\* other than 0 (milliseconds since 1970)
ParsesAsDate(v) ==
    \/ v.t = "string" /\ v.s \in DateTexts
    \/ v.t = "number" /\ v.n # 0

ParseableRows == {i \in 1..Len(chartData) : ParsesAsDate(TimeValue(i))}

\* the local calendar date [y, m, d] of a value that parses: read off a date
\* text, or counted in days from 1970 for a number
CalendarOf(v) ==
    IF v.t = "string"
    THEN [y |-> digitsValue(SubSeq(v.s, 1, 4), 0),
          m |-> digitsValue(SubSeq(v.s, 6, 7), 0),
          d |-> digitsValue(SubSeq(v.s, 9, 10), 0)]
    ELSE civilFromDays(dateFromNumber(v, timezoneOffset).days)

\* the day of the week of a calendar date by Zeller's congruence, 0 = Sunday
WeekdayOfDate(c) ==
    LET m == IF c.m <= 2 THEN c.m + 12 ELSE c.m
        y == IF c.m <= 2 THEN c.y - 1 ELSE c.y
        h == (c.d + (13 * (m + 1)) \div 5 + (y % 100) + (y % 100) \div 4
                + (y \div 100) \div 4 + 5 * (y \div 100)) % 7
    IN  (h + 6) % 7

WeekdayOf(v) == WeekdayOfDate(CalendarOf(v))

\* the ISO 8601 week of a calendar date, as the number of its Monday-to-Sunday
\* week counted from the week of 1970-01-01: equal numbers are the same ISO
\* week-year and week number
IsoWeekOf(v) ==
    (daysFromCivil(CalendarOf(v).y, CalendarOf(v).m, CalendarOf(v).d) + 3) \div 7

\* the k-th smallest member of a set of numbers
KthSmallest(S, k) == CHOOSE w \in S : Cardinality({u \in S : u <= w}) = k

\* the display form MM/DD HH:MM:SS of a value that parses
DisplayForm(v) ==
    IF v.t = "string"
    THEN SubSeq(v.s, 6, 7) \o <<"/">> \o SubSeq(v.s, 9, 10) \o <<" ">>
           \o SubSeq(v.s, 12, 19)
    ELSE formatDateWithSeconds(dateFromNumber(v, timezoneOffset))

\* row i of the output has the value columns of row i of the input
ValueColumnsKept(i) ==
    \A h \in (DOMAIN chartData[i]) \ {xAxis} :
        h \in DOMAIN processedData[i] /\ processedData[i][h] = chartData[i][h]

\* C15 as stated: with grouping 'none' the output has the rows of the input,
\* in order, with their value columns unchanged; the time value of a row is
\* replaced by its display form exactly when it parses as a valid date and
\* is otherwise unchanged.
C15_ReplacedIffValueParses ==
    (Rendered /\ timeGrouping = "none") =>
        /\ Len(processedData) = Len(chartData)
        /\ \A i \in 1..Len(chartData) :
              /\ ValueColumnsKept(i)
              /\ Get(processedData[i], xAxis) =
                    IF ParsesAsDate(TimeValue(i))
                    THEN Str(DisplayForm(TimeValue(i)))
                    ELSE TimeValue(i)

\* C15 as amended: with grouping 'none' the output has the rows of the
\* input, in order, with their value columns unchanged; the time value of a
\* row is replaced by its display form exactly when the X axis is a detected
\* date column and the value parses as a valid date, and the row then also
\* holds the original value under _originalTimestamp; any other row is
\* unchanged.
C15_ReplacedIffDateAxisAndValueParses ==
    (Rendered /\ timeGrouping = "none") =>
        /\ Len(processedData) = Len(chartData)
        /\ \A i \in 1..Len(chartData) :
              /\ ValueColumnsKept(i)
              /\ IF DateAxis /\ ParsesAsDate(TimeValue(i))
                 THEN /\ processedData[i][xAxis] = Str(DisplayForm(TimeValue(i)))
                      /\ DOMAIN processedData[i]
                            = (DOMAIN chartData[i]) \cup {xAxis, OriginalTimestamp}
                      /\ processedData[i][OriginalTimestamp] = TimeValue(i)
                 ELSE processedData[i] = chartData[i]

\* on a date axis the row of 2025-12-29 shows '12/29 00:00:00' and the row
\* of 'x' is as it was
C15_Witness ==
    /\ Rendered /\ timeGrouping = "none" /\ DateAxis
    /\ Len(chartData) = 2
    /\ TimeValue(1) = Str(Mon29Dec2025)
    /\ processedData[1][xAxis]
          = Str(<<"1", "2", "/", "2", "9", " ", "0", "0", ":", "0", "0", ":", "0", "0">>)
    /\ TimeValue(2) = Str(NoDateText)
    /\ processedData[2] = chartData[2]

\* C16 as stated: with grouping 'none' and a time column that is not a date
\* column, the output is bounded to the first 50 input rows.
C16_RawOutputBoundedTo50 ==
    (Rendered /\ timeGrouping = "none" /\ ~DateAxis) =>
        /\ Len(processedData) <= RawRowLimit
        /\ \A i \in 1..Len(processedData) :
              TimeValue(i) = Get(processedData[i], xAxis) /\ ValueColumnsKept(i)

\* C16 as amended: with a grouping other than 'none' and an X axis that is
\* not a detected date column, the output is the first 50 input rows, each
\* unchanged; with grouping 'none' the output has every input row.
C16_UngroupableOutputBoundedTo50 ==
    /\ (Rendered /\ timeGrouping # "none" /\ ~DateAxis) =>
          processedData = SubSeq(chartData, 1, Min(RawRowLimit, Len(chartData)))
    /\ (Rendered /\ timeGrouping = "none") =>
          Len(processedData) = Len(chartData)

\* the 51 rows with a numeric X axis came out as their first 50 under the
\* grouping 'days'
C16_Witness ==
    /\ Rendered /\ timeGrouping = "days" /\ ~DateAxis
    /\ chartData = NumericAxisData
    /\ Len(processedData) = RawRowLimit
    /\ processedData[RawRowLimit] = chartData[RawRowLimit]

\* C17: with grouping 'days' (on a date axis) the rows with a parseable time
\* are bucketed by their day of the week: the output has one row per
\* occupied weekday, at most 7, labelled with the weekday's three-letter
\* name, in ascending weekday order from Sunday.
C17_OneRowPerOccupiedWeekday ==
    (Bucketed /\ timeGrouping = "days") =>
        LET occupied == {WeekdayOf(TimeValue(i)) : i \in ParseableRows}
        IN  /\ Len(processedData) = Cardinality(occupied)
            /\ Len(processedData) <= 7
            /\ \A k \in 1..Len(processedData) :
                  /\ processedData[k][xAxis]
                        = Str(DAY_ABBR[KthSmallest(occupied, k) + 1])
                  /\ processedData[k][OriginalKey]
                        = Str(numberToString(KthSmallest(occupied, k)))

\* two Mondays a week apart, the later one first, came out as the one row
\* Mon
C17_Witness ==
    /\ Bucketed /\ timeGrouping = "days"
    /\ Len(chartData) = 2
    /\ TimeValue(1) = Str(Mon05Jan2026)
    /\ TimeValue(2) = Str(Mon29Dec2025)
    /\ Len(processedData) = 1
    /\ processedData[1][xAxis] = Str(<<"M", "o", "n">>)

\* the output row that holds input row i under the grouping in force
BucketKey(i) ==
    Str(groupKeyOf(parseDate(TimeValue(i), timezoneOffset), timeGrouping))

\* the input rows counted in output row k
BucketRows(k) ==
    {i \in ParseableRows : BucketKey(i) = processedData[k][OriginalKey]}

\* C18: with grouping 'weeks' two rows with a parseable time are in the same
\* bucket exactly when their dates are in the same ISO 8601 week (same ISO
\* week-year and week number), around the turn of the year too.
C18_SameBucketIffSameIsoWeek ==
    (Bucketed /\ timeGrouping = "weeks") =>
        /\ Len(processedData)
              = Cardinality({IsoWeekOf(TimeValue(i)) : i \in ParseableRows})
        /\ \A i, j \in ParseableRows :
              (\E k \in 1..Len(processedData) : {i, j} \subseteq BucketRows(k))
                 <=> IsoWeekOf(TimeValue(i)) = IsoWeekOf(TimeValue(j))

\* the month index (from 1) of a three-letter month label
MonthIndex(label) == CHOOSE m \in 1..12 : Str(MONTH_ABBR[m]) = label

\* C19: with grouping 'months' (on a date axis) the output has exactly one
\* row per distinct (year, month) of the rows with a parseable time,
\* labelled with the month's three-letter name, and the rows are in
\* non-decreasing order of month index whatever their years.
C19_OneRowPerYearMonthInMonthOrder ==
    (Bucketed /\ timeGrouping = "months") =>
        LET pairs == {<<CalendarOf(TimeValue(i)).y, CalendarOf(TimeValue(i)).m>> :
                         i \in ParseableRows}
        IN  /\ Len(processedData) = Cardinality(pairs)
            /\ \A k \in 1..Len(processedData) :
                  \E m \in 1..12 : processedData[k][xAxis] = Str(MONTH_ABBR[m])
            /\ \A m \in 1..12 :
                  Cardinality({k \in 1..Len(processedData) :
                                  processedData[k][xAxis] = Str(MONTH_ABBR[m])})
                     = Cardinality({p \in pairs : p[2] = m})
            /\ \A k \in 1..(Len(processedData) - 1) :
                  MonthIndex(processedData[k][xAxis])
                     <= MonthIndex(processedData[k + 1][xAxis])

\* December 2025 followed by January 2026 came out as Jan, Dec
C19_Witness ==
    /\ Bucketed /\ timeGrouping = "months"
    /\ Len(chartData) = 2
    /\ TimeValue(1) = Str(Mon29Dec2025)
    /\ TimeValue(2) = Str(Thu01Jan2026)
    /\ Len(processedData) = 2
    /\ processedData[1][xAxis] = Str(<<"J", "a", "n">>)
    /\ processedData[2][xAxis] = Str(<<"D", "e", "c">>)

\* the columns processedData was asked to aggregate
RequestedColumns ==
    LET ys == yAxesToAggregate(viewMode, selectedYAxes, yAxis)
    IN  {ys[n] : n \in 1..Len(ys)}

\* row i holds a number under column y
HoldsNumber(i, y) == Get(chartData[i], y).t = "number"

\* the sum of f over the indices 1..n
RECURSIVE SumUpTo(_, _)
SumUpTo(f, n) == IF n = 0 THEN 0 ELSE f[n] + SumUpTo(f, n - 1)

\* the requested columns under which some input row holds a number
NumericRequestedColumns ==
    {y \in RequestedColumns : \E i \in 1..Len(chartData) : HoldsNumber(i, y)}

\* C20 as stated: with method 'count' the value of every requested column in
\* a bucket is the number of rows in the bucket, whether or not they hold a
\* number under that column; so for each column the counts of all buckets
\* add up to the number of rows with a parseable time (checked for the
\* columns that hold a number in some row).
C20_CountIsBucketSize ==
    (Bucketed /\ aggregationMethod = "count") =>
        \A y \in NumericRequestedColumns :
           /\ \A k \in 1..Len(processedData) :
                 processedData[k][y] = Number(Cardinality(BucketRows(k)), 0)
           /\ SumUpTo([k \in 1..Len(processedData) |-> processedData[k][y].n],
                      Len(processedData))
                 = Cardinality(ParseableRows)

\* C20 as amended: with method 'count' the value of a requested column in a
\* bucket is the number of rows in the bucket, the rows without a number
\* under that column included, when at least one row of the bucket holds a
\* number under that column, and 0 when none does; so for each column the
\* counts of all buckets add up to at most the number of rows with a
\* parseable time, which is at most the number of input rows.
C20_CountIsBucketSizeOrZero ==
    (Bucketed /\ aggregationMethod = "count") =>
        \A y \in RequestedColumns :
           /\ \A k \in 1..Len(processedData) :
                 processedData[k][y] =
                    IF \E i \in BucketRows(k) : HoldsNumber(i, y)
                    THEN Number(Cardinality(BucketRows(k)), 0)
                    ELSE Number(0, 0)
           /\ SumUpTo([k \in 1..Len(processedData) |-> processedData[k][y].n],
                      Len(processedData))
                 <= Cardinality(ParseableRows)
           /\ Cardinality(ParseableRows) <= Len(chartData)

\* a bucket of two rows, one of them with the text 'x' under V1, counted 2
\* for V1
C20_Witness ==
    /\ Bucketed /\ aggregationMethod = "count"
    /\ V1 \in RequestedColumns
    /\ \E k \in 1..Len(processedData) :
          /\ Cardinality(BucketRows(k)) = 2
          /\ \E i \in BucketRows(k) : ~HoldsNumber(i, V1)
          /\ processedData[k][V1] = Number(2, 0)

\* a number with at most two decimal places, in hundredths
Hundredths(v) == v.n * PowerOfTen(2 - v.d)

\* the total over all output rows of column y, in hundredths
OutputTotal(y) ==
    SumUpTo([k \in 1..Len(processedData) |-> Hundredths(processedData[k][y])],
            Len(processedData))

\* the total of the numbers under column y over the input rows with a
\* parseable time, in hundredths
InputTotal(y) ==
    SumUpTo([i \in 1..Len(chartData) |->
                IF i \in ParseableRows /\ HoldsNumber(i, y)
                THEN Hundredths(chartData[i][y]) ELSE 0],
            Len(chartData))

\* C21: with method 'sum' and a grouping other than 'none' (on a date axis),
\* for every requested column the values of all output buckets add up to the
\* sum of that column's numbers over the input rows whose time parses as a
\* date.
C21_SumIsConserved ==
    (Bucketed /\ aggregationMethod = "sum") =>
        \A y \in RequestedColumns : OutputTotal(y) = InputTotal(y)

\* two Mondays with 10 and 0.25 under V1 came out as one bucket with 10.25
C21_Witness ==
    /\ Bucketed /\ aggregationMethod = "sum" /\ timeGrouping = "days"
    /\ Len(chartData) = 2
    /\ TimeValue(1) = Str(Mon29Dec2025) /\ Get(chartData[1], V1) = Number(10, 0)
    /\ TimeValue(2) = Str(Mon05Jan2026) /\ Get(chartData[2], V1) = Number(25, 2)
    /\ Len(processedData) = 1
    /\ processedData[1][V1] = Number(1025, 2)

\* the rows of output row k that hold a number under column y
NumericIn(k, y) == {i \in BucketRows(k) : HoldsNumber(i, y)}

\* the total of those numbers, in hundredths
BucketTotal(k, y) ==
    SumUpTo([i \in 1..Len(chartData) |->
                IF i \in NumericIn(k, y) THEN Hundredths(chartData[i][y]) ELSE 0],
            Len(chartData))

\* C22 as stated: with method 'average' the value of a column in a bucket is
\* the arithmetic mean of the numbers the bucket's rows hold under that
\* column, and 0 when they hold none; a row without a number under the
\* column is left out of that column's mean only.
C22_AverageIsMean ==
    (Bucketed /\ aggregationMethod = "average") =>
        \A y \in RequestedColumns : \A k \in 1..Len(processedData) :
            IF NumericIn(k, y) = {}
            THEN processedData[k][y] = Number(0, 0)
            ELSE Hundredths(processedData[k][y]) * Cardinality(NumericIn(k, y))
                    = BucketTotal(k, y)

\* C22 as amended: with method 'average' the value of a column in a bucket is
\* the arithmetic mean of the numbers the bucket's rows hold under that
\* column, rounded to the nearest hundredth (a tie upwards), and 0 when they
\* hold none; a row without a number under the column is left out of that
\* column's mean only and still counts for the bucket's other columns.
C22_AverageIsMeanToTwoDecimals ==
    (Bucketed /\ aggregationMethod = "average") =>
        \A y \in RequestedColumns : \A k \in 1..Len(processedData) :
            IF NumericIn(k, y) = {}
            THEN processedData[k][y] = Number(0, 0)
            ELSE LET n == Cardinality(NumericIn(k, y))
                     q == Hundredths(processedData[k][y])
                 IN  /\ 2 * n * q - 2 * BucketTotal(k, y) <= n
                     /\ 2 * BucketTotal(k, y) - 2 * n * q < n

\* two Mondays with 10 and 0.25 under V1 came out as one bucket with 5.13,
\* and a Monday with 'x' under V1 and 5 under V2 next to a Monday with 10
\* and 5 came out as 10 for V1 and 5 for V2
C22_Witness ==
    /\ Bucketed /\ aggregationMethod = "average" /\ timeGrouping = "days"
    /\ viewMode = "multi"
    /\ Len(chartData) = 2 /\ Len(processedData) = 1
    /\ TimeValue(1) = Str(Mon29Dec2025) /\ TimeValue(2) = Str(Mon29Dec2025)
    /\ Get(chartData[1], V1) = Number(10, 0)
    /\ \/ /\ Get(chartData[2], V1) = Str(NoDateText)
          /\ processedData[1][V1] = Number(10, 0)
          /\ processedData[1][V2] = Number(5, 0)
       \/ /\ Get(chartData[2], V1) = Number(25, 2)
          /\ processedData[1][V1] = Number(513, 2)

\* the requested columns that no input row has
AbsentRequestedColumns ==
    {y \in RequestedColumns : \A i \in 1..Len(chartData) : y \notin DOMAIN chartData[i]}

\* C23: for every method and every grouping other than 'none' (on a date
\* axis), the aggregation yields its rows, and a requested column that no
\* input row has is present with the value 0 in every output bucket.
C23_AbsentColumnIsZero ==
    Bucketed =>
        /\ Len(processedData) >= 1 <=> ParseableRows # {}
        /\ \A y \in AbsentRequestedColumns : \A k \in 1..Len(processedData) :
              /\ y \in DOMAIN processedData[k]
              /\ processedData[k][y] = Number(0, 0)

\* two rows without V2, in two buckets, counted for V1 and V2: both buckets
\* hold 0 for V2
C23_Witness ==
    /\ Bucketed /\ aggregationMethod = "count" /\ viewMode = "multi"
    /\ V2 \in AbsentRequestedColumns
    /\ Len(processedData) = 2
    /\ processedData[1][V2] = Number(0, 0)
    /\ processedData[2][V2] = Number(0, 0)
    /\ processedData[1][V1] = Number(1, 0)

\* the time value of the row parses as a date
RowParses(row) == ParsesAsDate(Get(row, xAxis))

\* the input without the rows whose time value does not parse
ParseableData == SelectSeq(chartData, RowParses)

\* C24: for every grouping other than 'none' (on a date axis) the output is
\* the output for the input without the rows whose time value does not parse
\* as a date: the same buckets in the same order with the same values.
C24_UnparseableRowsContributeNothing ==
    Bucketed =>
        processedData =
            processedDataOf(ParseableData, xAxis,
                            yAxesToAggregate(viewMode, selectedYAxes, yAxis),
                            timeGrouping, aggregationMethod,
                            isDateAxis(chartHeaders, ParseableData, xAxis,
                                       timezoneOffset),
                            timezoneOffset)

\* a row with the time 'x' and 10 under V1, then a Monday with 0.25: the one
\* bucket Mon holds 0.25
C24_Witness ==
    /\ Bucketed /\ aggregationMethod = "sum" /\ timeGrouping = "days"
    /\ Len(chartData) = 2
    /\ TimeValue(1) = Str(NoDateText) /\ Get(chartData[1], V1) = Number(10, 0)
    /\ TimeValue(2) = Str(Mon29Dec2025) /\ Get(chartData[2], V1) = Number(25, 2)
    /\ Len(processedData) = 1
    /\ processedData[1][xAxis] = Str(<<"M", "o", "n">>)
    /\ processedData[1][V1] = Number(25, 2)

(***************************************************************************)
(* The Dashboard's dataset, under SpecDashboard.                            *)
(***************************************************************************)
\* the files with fewer than two non-empty lines
ShortFileNames == {f.name : f \in {g \in Files : Len(NonEmptyLines(g.content)) < 2}}

\* C25: a file with fewer than two non-empty lines is never loaded as a
\* dataset: a step in which the Dashboard handles such a file, the fallback
\* to the server's parser included, leaves headers, rows and the
\* multi-metric flag as they were.
C25_ShortFileIsNeverLoaded ==
    [][handledFile' \in ShortFileNames =>
          UNCHANGED <<dashHeaders, csvData, dashIsMultiMetric>>]_vars

\* the notifications of success
SuccessToasts == {UploadedSuccessfully, LoadedSuccessfully, FileLoadedSuccessfully}

\* the step of a handler whose parseCSV failed on the client and in the
\* fallback changes nothing and shows no success
FailedParseChangesNothing ==
    FailedToParse \in toasts' =>
        /\ UNCHANGED <<currentFileName, dashHeaders, csvData>>
        /\ toasts' \cap SuccessToasts = {}

\* C29: the current file name is always the name of the file whose parse
\* set the displayed headers and rows; and a step in which the parsing of
\* the chosen file fails, on the client and in the fallback, leaves the file
\* name, the headers and the rows as they were and shows no success
\* notification.
C29_FileNameNamesShownData ==
    [](currentFileName = shownFile) /\ [][FailedParseChangesNothing]_vars

(***************************************************************************)
(* The chart's controls, under SpecControls.                                *)
(***************************************************************************)
\* the number of metrics the feature list promises to compare at once
ComparedMetrics == 3

\* C26: in the multi view, after any sequence of metric toggles from the
\* default selection, no more than 3 metrics are selected at once.
C26_AtMostThreeSelected ==
    viewMode = "multi" =>
        Cardinality({selectedYAxes[i] : i \in 1..Len(selectedYAxes)})
            <= ComparedMetrics

\* C28: after any sequence of interval selections, Ctrl+T presses and X-axis
\* changes, the time grouping differs from 'none' only while the selected
\* X-axis column is a detected date column.
C28_GroupingOnlyOnDateAxis ==
    timeGrouping # "none" =>
        isDateAxis(chartHeaders, chartData, xAxis, timezoneOffset)

(***************************************************************************)
(* The server's upload history, under SpecServer.                           *)
(***************************************************************************)
\* the request r has been answered { success: true, ... }
Succeeded(r) == requests[r].status = 200

\* the successful uploads made after the upload of r
NewerThan(r) ==
    {q \in 1..Len(requests) :
        Succeeded(q) /\ requests[q].timestamp > requests[r].timestamp}

\* the places of the metadata entry of r in the stored history
PlacesInHistory(r) ==
    {i \in 1..Len(kvHistory) : kvHistory[i] = requests[r].uploadMetadata}

\* C30: whatever the interleaving of the requests, the stored history holds
\* the metadata entry of every successful upload that fewer than 20
\* successful uploads are newer than, and holds a newer upload before an
\* older one.
C30_HistoryHoldsEverySuccessfulUpload ==
    \A r \in 1..Len(requests) :
        (Succeeded(r) /\ Cardinality(NewerThan(r)) < HistoryLimit) =>
            /\ PlacesInHistory(r) # {}
            /\ \A q \in NewerThan(r) :
                  \A i \in PlacesInHistory(r), j \in PlacesInHistory(q) : j < i

(***************************************************************************)
(* The header normalizer, under SpecHeaders.                                *)
(***************************************************************************)
\* C6: for every raw header list the list cleanHeaders returns has pairwise
\* distinct entries.
C6_CleanedHeadersAreDistinct ==
    pc = "done" => Distinct(cleaned)

\* which occurrence of its cleaned name the i-th raw header is (1-based)
Occurrence(i) ==
    Cardinality({j \in 1..i : cleanName(rawHeaders[j]) = cleanName(rawHeaders[i])})

Suffixed(name, k) == name \o <<" ">> \o numberToString(k)

\* C7: cleanHeaders keeps length and order; the first occurrence of a
\* cleaned name is that name, its k-th occurrence (k >= 2) is the name, a
\* space and k.
C7_OccurrenceSuffix ==
    pc = "done" =>
        /\ Len(cleaned) = Len(rawHeaders)
        /\ \A i \in 1..Len(rawHeaders) :
              cleaned[i] = IF Occurrence(i) = 1
                           THEN cleanName(rawHeaders[i])
                           ELSE Suffixed(cleanName(rawHeaders[i]), Occurrence(i))

\* ['V','V','V'] became ['V','V 2','V 3']
C7_Witness ==
    /\ pc = "done"
    /\ rawHeaders = <<V, V, V>>
    /\ cleaned = <<V, <<"V", " ", "2">>, <<"V", " ", "3">>>>

\* a header read as <tag> '>' <name>: the text before its first '>', and
\* the text after it
TagOf(h) == trimEnd(split(h, ">")[1])

AfterTag(h) == trimStart(drop(h, Len(split(h, ">")[1]) + 1))

HasDeviceTag(h) ==
    /\ includes(h, ">")
    /\ TagOf(h) # <<>>
    /\ \A i \in 1..Len(TagOf(h)) : TagOf(h)[i] \in Letter \cup Digit

HasSecureTag(h) ==
    /\ HasDeviceTag(h)
    /\ startsWith(TagOf(h), IOITSecure)
    /\ Len(TagOf(h)) > Len(IOITSecure)
    /\ \A i \in (Len(IOITSecure) + 1)..Len(TagOf(h)) : TagOf(h)[i] \in Digit

\* name, or name with a duplicate's suffix
IsNameOrSuffixed(h, name) ==
    h = name \/ \E k \in 2..Len(rawHeaders) : h = Suffixed(name, k)

\* C8 as stated: a leading <alphanumeric device tag> '>' is stripped for
\* every device tag.
C8_AnyDevicePrefixIsStripped ==
    pc = "done" =>
        \A i \in 1..Len(rawHeaders) :
           LET h == trim(rawHeaders[i])
           IN  HasDeviceTag(h) => IsNameOrSuffixed(cleaned[i], AfterTag(h))

\* C8 as amended: the prefix is stripped when the tag is IOITSecure
\* followed by one or more digits; every other header, a header with
\* another device tag included, keeps its trimmed text.
C8_OnlyIOITSecurePrefixIsStripped ==
    pc = "done" =>
        /\ Len(cleaned) = Len(rawHeaders)
        /\ \A i \in 1..Len(rawHeaders) :
              LET h == trim(rawHeaders[i])
              IN  IsNameOrSuffixed(cleaned[i],
                                   IF HasSecureTag(h) THEN AfterTag(h) ELSE h)

\* 'IOITSecure447 > R Ph Voltage' was cleaned to 'R Ph Voltage' and
\* 'Device123 > Voltage' was left as it is
C8_Witness ==
    /\ pc = "done"
    /\ rawHeaders = <<DocDeviceHeader, OtherDeviceHeader>>
    /\ cleaned = <<RPhVoltage, OtherDeviceHeader>>

====
